---- MODULE Spec2Model ----
(***************************************************************************)
(* confctl: the worker side of the dependency-graph build engine.          *)
(*                                                                         *)
(* The worker walks the build graph synchronously (plain recursive calls). *)
(* The model keeps the Python call stack explicitly: one frame per         *)
(* activation of build_specs, of a tracked action (action._fn together     *)
(* with the OpsTracking.op context manager it opens) and of a target's     *)
(* entry function.  Target code and the failures of the environment        *)
(* (missing module, missing entry function, failing command) are chosen    *)
(* nondeterministically.                                                   *)
(***************************************************************************)
EXTENDS Integers, Sequences, FiniteSets, TLC

\* ---------------------------------------------------------------- bounds
MaxSpecs == 2      \* requested specs on the command line
MaxBody == 2       \* tracked-action calls made by one entry function
MaxLogs == 1       \* log lines streamed by one run/sh call
MaxOps == 6        \* target code opens no further Operation from this id on
MaxOpsOld == 4     \* the same limit for the target code of the earlier worker
MaxOpsScope == 9   \* the same limit for the two-target builds of SpecScope
MaxCtx == 3        \* Ctx objects: global_ctx and its descendants
MaxSteps == 6      \* operations on the Ctx objects in one run of SpecCtx
MaxMsgs == 2       \* events the worker sends on the channel in SpecChan
MaxWakes == 2      \* reset_sleeping_delay calls in SpecChan
MaxIdle == 12      \* consecutive waits of the receive loop that time out
MaxUiOps == 4      \* Operations opened in one event stream of SpecUI
MaxUiExtra == 2    \* Log, Progress, Debug and future-kind events in one stream
MaxUiPolls == 1    \* polls of the observer that find no event
MaxLag == 1        \* events in the pipe when the worker sends the next ones
MaxRawLen == 12    \* characters of a raw spec string in SpecParse
MaxExitCode == 2   \* largest exit code of an install command in SpecCalls

\* ------------------------------------------------------------- constants
CONF_RESOLVER_NAME == "conf"
root_conf_dep == [res |-> "conf", body |-> ":main", q |-> ""]
NoDep == [res |-> "", body |-> "", q |-> ""]
NoSpec == [res |-> "", body |-> "", q |-> ""]

\* Raw specs the command line and the target code may name:
\* `conf::a`, `conf::a?k`, `conf::b`, `conf:::main`, `path::p`, `zz::x`,
\* and `a`, a spec without a resolver prefix.
RawSpecs ==
    { [res |-> "", body |-> "a", q |-> ""],
      [res |-> "conf", body |-> "a", q |-> ""],
      [res |-> "conf", body |-> "a", q |-> "k"],
      [res |-> "conf", body |-> "b", q |-> ""],
      [res |-> "conf", body |-> ":main", q |-> ""],
      [res |-> "path", body |-> "p", q |-> ""],
      [res |-> "zz", body |-> "x", q |-> ""] }

\* The resolvers of DEFAULT_RESOLVERS, in registration order.
DEFAULT_RESOLVERS == <<"path", "dir", "conf">>

\* The lists of further resolvers a root build unit may name in
\* CONFCTL_RESOLVERS: none, or PathResolver (deps/resolvers/path.py: setup).
PluginLists == {<<>>, <<"PathResolver">>}

\* Build units that exist as files below configs_root: conf_path.exists().
ConfPathExists(raw) == raw.body \in {"a", "b"}

\* Raw specs target code passes to dep(...).
CodeSpecs ==
    { [res |-> "conf", body |-> "a", q |-> "k"],
      [res |-> "conf", body |-> "b", q |-> ""],
      [res |-> "conf", body |-> ":main", q |-> ""],
      [res |-> "path", body |-> "p", q |-> ""] }

VARIABLES
    specs,            \* build_specs: the requested raw specs
    rootExists,       \* configs_root/.confbuild.py exists
    stack,            \* the call stack, innermost frame last
    exc,              \* an exception is propagating
    ret,              \* value of the last finished call: "value" or "None"
    events,           \* everything sent on the events channel, in order
    seq_id,           \* OpsTracking.seq_id: the next id
    active_op_path,   \* the ContextVar active_op_path
    resolved,         \* fqns with a memoized result: ConfResolver._resolved,
                      \* or the functools cache of Dep.resolve
    deps_map,         \* Registry.deps_map (its keys)
    units,            \* what each build unit turned out to be, once loaded
    requested,        \* history: Registry.resolve calls, per fqn
    depCreated,       \* history: Dep objects constructed, per fqn
    fnCalls,          \* history: runs of the build logic, per fqn
    raisedIn,         \* history: paths of Operations whose wrapped code raised
    reraised,         \* history: paths of action calls that raised to their caller
    exitStatus,       \* <<>> while the worker runs, then <<its exit code>>
    resolvers,        \* Registry.resolvers, in registration order
    dispatch,         \* history: the calls the last Registry.resolve made
    max_ops,          \* the limit on Operation ids for target code, fixed at start
    layer,            \* per Ctx, the value of key `n` in its own mapping (maps[0])
    parent,           \* per Dep, the Ctx its own Ctx is a new_child() of
    \* ---- the Ctx objects by themselves (SpecCtx)
    nctx,             \* number of Ctx objects made so far; Ctx 0 is global_ctx
    ctx_parent,       \* per Ctx, the Ctx it is a new_child() of; -1 for global_ctx
    ctx_maps,         \* per Ctx, its own mapping maps[0]: key -> cell
    written,          \* history: per Ctx and key, the last conf call: its string,
                      \* when it was made, whether it replaced a memoized value
    renders,          \* history: per Ctx and key, renders of the cell by reads of the key
    nrender,          \* history: calls of the render function, nested ones included
    nsteps,           \* history: operations made
    lastOp,           \* history: the last operation and what it returned
    \* ---- the channel between worker and observer (SpecChan)
    pipe,             \* events sent by the worker and not yet taken by recv
    sent,             \* number of events the worker has sent
    rpc,              \* where AsyncConn.recv is suspended
    held,             \* recv's local `ev`: the event taken and not yet yielded
    yielded,          \* the events yielded to the consumer, in order
    sleeping_delay,   \* AsyncConn._sleeping_delay, in ticks
    reset_flag,       \* the asyncio.Event AsyncConn._reset_sleeping_delay
    armed,            \* the delay the current wait was started with
    idle,             \* history: consecutive waits that timed out
    wakes,            \* history: number of reset_sleeping_delay calls
    wokeInWait,       \* history: reset_sleeping_delay was called during this wait
    pending,          \* history: an activity signal not answered yet
    lastWait,         \* history: the last wait that ended
    \* ---- the observer and the event stream it reads (SpecUI)
    stream,           \* the events the worker has sent, in order
    w_stack,          \* the worker's open Operations, innermost last
    w_seq,            \* the worker's OpsTracking.seq_id
    w_state,          \* "run", "done", or "killed" (terminated by the host)
    w_extra,          \* number of events sent that are neither Start nor exit events
    ui_pos,           \* number of events listen_to_channel has handled
    ops_map,          \* OpsView.ops_map: path -> Operation
    root_op,          \* OpsView.root_op, as the path of that Operation
    listen,           \* listen_to_channel: "running", "returned" or "failed"
    ui_polls,         \* number of polls that found no event
    \* ---- spec parsing and dispatch on strings (SpecParse)
    p_raw,            \* the raw spec, a sequence of characters
    p_depth,          \* depth of ctx.current_config_dir below the configs root
    p_resolvers,      \* Registry.resolvers, by name
    p_out,            \* what the last call returned or raised
    \* ---- calls of single functions on drawn arguments (SpecCalls)
    call_in,          \* the arguments and the environment of the call
    call_out          \* what the call returned or raised

vars == <<specs, rootExists, stack, exc, ret, events, seq_id, active_op_path,
          resolved, deps_map, units, requested, depCreated, fnCalls, raisedIn,
          reraised, exitStatus, resolvers, dispatch, max_ops, layer, parent,
          nctx, ctx_parent, ctx_maps, written, renders, nrender, nsteps, lastOp,
          pipe, sent, rpc, held, yielded, sleeping_delay, reset_flag, armed, idle,
          wakes, wokeInWait, pending, lastWait,
          stream, w_stack, w_seq, w_state, w_extra, ui_pos, ops_map, root_op, listen,
          ui_polls, p_raw, p_depth, p_resolvers, p_out, call_in, call_out>>

workerVars == <<specs, rootExists, stack, exc, ret, events, seq_id, active_op_path,
                resolved, deps_map, units, requested, depCreated, fnCalls, raisedIn,
                reraised, exitStatus, resolvers, dispatch, max_ops, layer, parent>>

ctxVars == <<nctx, ctx_parent, ctx_maps, written, renders, nrender, nsteps, lastOp>>

chanVars == <<pipe, sent, rpc, held, yielded, sleeping_delay, reset_flag, armed, idle,
              wakes, wokeInWait, pending, lastWait>>

uiVars == <<stream, w_stack, w_seq, w_state, w_extra, ui_pos, ops_map, root_op, listen,
            ui_polls>>

parseVars == <<p_raw, p_depth, p_resolvers, p_out>>

callVars == <<call_in, call_out>>

\* ---------------------------------------------------------------- helpers
Front(s) == SubSeq(s, 1, Len(s) - 1)
Last(s) == s[Len(s)]

RECURSIVE SeqsUpTo(_, _)
SeqsUpTo(S, n) ==
    IF n = 0 THEN {<<>>}
    ELSE LET shorter == SeqsUpTo(S, n - 1)
         IN shorter \cup {Append(s, x) : s \in {t \in shorter : Len(t) = n - 1}, x \in S}

\* parse_spec: the resolver name of a raw spec, the default one if the raw
\* spec has no `resolver::` prefix.
ResolverName(raw, default_resolver_name) ==
    IF raw.res = "" THEN default_resolver_name ELSE raw.res

\* fqn of a raw spec.  parse_conf_spec strips the `?query` part before it
\* builds the ConfSpec; the general parse_spec keeps it in `spec`.  A spec
\* without a prefix gets the default resolver name of the resolver that
\* parses it: ConfResolver, or else PathResolver.
Fqn(raw) ==
    LET name == ResolverName(raw, IF ConfPathExists(raw) THEN CONF_RESOLVER_NAME ELSE "path")
    IN [res |-> name, body |-> raw.body,
        q |-> IF name = CONF_RESOLVER_NAME THEN "" ELSE raw.q]

Fqns ==
    {Fqn(r) : r \in RawSpecs}
        \cup {[res |-> ResolverName(r, CONF_RESOLVER_NAME), body |-> r.body, q |-> ""] : r \in RawSpecs}

\* ConfResolver.resolve: only the root Dep is created with failsafe=True.
Failsafe(fqn) == fqn = root_conf_dep

\* action(...): the decorator's own failsafe parameter; no action sets it.
ActionFailsafe(op_name) == FALSE

\* ------------------------------------------------------------------ scopes
\* The Ctx objects: global_ctx, named by NoDep, and one per Dep.
GlobalCtx == NoDep

\* The value the target code of a build unit gives to key `n`: unit b
\* calls conf(n=2), any other unit conf(n=1); "" is: the key is absent.
ConfValue(fqn) == IF fqn.body = "b" THEN "2" ELSE "1"

\* conf(n=v): the keyword arguments of the call.
ConfKw(v) == [res |-> "", body |-> "n", q |-> v]

\* ConfResolver.resolve: the root Dep is given ctx.global_ctx itself, any
\* other Dep a Ctx of its own, made with new_child().
DepCtx(fqn) == IF fqn = root_conf_dep THEN GlobalCtx ELSE fqn

ExecutionCtx_Global(caller) == GlobalCtx

\* Action.execution_ctx: the caller's Ctx, or global_ctx without a caller.
ExecutionCtx(caller) == IF caller = NoDep THEN GlobalCtx ELSE DepCtx(caller)

\* ChainMap.__getitem__: the first mapping of the chain that has the key;
\* the chain of a child is its own mapping, then the chain of its parent.
RECURSIVE CtxGet(_, _, _)
CtxGet(c, lay, par) ==
    IF lay[c] # "" THEN lay[c]
    ELSE IF c = GlobalCtx THEN ""
    ELSE CtxGet(par[c], lay, par)

\* The keys and the strings target code passes to conf: x is given a
\* literal or a template that refers to y, y is given a literal.
Keys == {"x", "y"}
ConfStrings(k) == IF k = "x" THEN {"2", "{{y}}"} ELSE {"1", "2"}

\* What a mapping holds under a key: nothing, a plain value, or a
\* LazyTemplate with its template string.
NoCell == [kind |-> "none", v |-> ""]

\* AsyncConn's delays, counted in ticks of 1/2048 ms so that every delay
\* the loop computes is a whole number: 50 ms, 3 s, and the factor 1.5.
TicksPerMs == 2048
DEFAULT_SLEEP == 50 * TicksPerMs
MAX_SLEEP == 3000 * TicksPerMs
GROWING_SLEEP_MULTIPLIER == <<3, 2>>

\* ---------------------------------------------------------------- strings
\* A string is the sequence of its characters.
NoOut == [op |-> "", raised |-> "", resolver_name |-> <<>>, spec |-> <<>>, fqn |-> <<>>,
          params |-> {}, to |-> ""]

\* No call: neither arguments nor a result.
NoCall == [fn |-> ""]

\* ----------------------------------------------------------------- events
Ev(typ, op_name, path) ==
    [typ |-> typ, op |-> op_name, path |-> path, src |-> NoDep, arg |-> NoSpec]

\* EvOpStart: its data carries action_src, the fqn of the calling Dep, and
\* the arguments of the call (for dep, the spec).
EvStart(op_name, path, caller, arg) ==
    [typ |-> "op/start", op |-> op_name, path |-> path, src |-> caller, arg |-> arg]

EvDebug(path) == Ev("internal/debug", "", path)

get_op_id_NoSeq(op_name, sid) == <<op_name, 0>>

\* OpsTracking.get_op_id: the op name and the next value of seq_id.
get_op_id(op_name, sid) == <<op_name, sid>>

\* OpsTracking.op, entry: the path of the new Operation.
NewOpPath(active, op_name, sid) == Append(active, get_op_id(op_name, sid))

OpExitEvents_NoError(op_name, path, failed) ==
    <<Ev("op/finish", op_name, path)>>

OpExitEvents_NoFinishOnError(op_name, path, failed) ==
    IF failed
    THEN <<Ev("op/error", op_name, path)>>
    ELSE <<Ev("op/finish", op_name, path)>>

OpExitEvents_FinishFirst(op_name, path, failed) ==
    IF failed
    THEN <<Ev("op/finish", op_name, path), Ev("op/error", op_name, path)>>
    ELSE <<Ev("op/finish", op_name, path)>>

\* OpsTracking.op, exit: the events sent when the wrapped code has ended,
\* `failed` telling whether it raised.
OpExitEvents(op_name, path, failed) ==
    IF failed
    THEN <<Ev("op/error", op_name, path), Ev("op/finish", op_name, path)>>
    ELSE <<Ev("op/finish", op_name, path)>>

ResetToken_Keep(frame) == frame.path

\* OpsTracking.op, exit: active_op_path.reset(_reset_token) restores the
\* path that was active when the Operation was opened.
ResetToken(frame) == frame.tok

\* OpWrapper.error as action._fn reads it: set iff the wrapped code raised.
OpError(frame_failed) == frame_failed

ShouldReraise_ActionFlagOnly(failed, caller) ==
    failed /\ caller # NoDep /\ ~ActionFailsafe("")

ShouldReraise_AnyCaller(failed, caller) ==
    failed /\ ~(caller # NoDep /\ Failsafe(caller)) /\ ~ActionFailsafe("")

ShouldReraise_Always(failed, caller) == failed /\ caller # NoDep

\* action._fn after the `with` block: does the call raise op.error?
ShouldReraise(failed, caller) ==
    /\ OpError(failed)
    /\ caller # NoDep
    /\ ~Failsafe(caller)
    /\ ~ActionFailsafe("")

\* action._fn after the `with` block: is the "Muted ..." debug line sent?
ShouldLogMuted(failed, caller) ==
    /\ OpError(failed)
    /\ caller # NoDep
    /\ ~ShouldReraise(failed, caller)

\* ----------------------------------------------------------------- frames
Frame(kind, op_name, path, tok, caller, pc, arg) ==
    [kind |-> kind, op |-> op_name, path |-> path, tok |-> tok,
     caller |-> caller, pc |-> pc, n |-> 0, arg |-> arg]

Top == stack[Len(stack)]

SetTop(f) == [stack EXCEPT ![Len(stack)] = f]

IsResolved_NoMemo(fqn, memo) == FALSE

\* The build unit of a Dep is a file: whether it loads and whether it
\* defines the entry function is found out at its first use and stays.
UnitChoices(fqn) == IF units[fqn] = "?" THEN {"ok", "nofn", "noload"} ELSE {units[fqn]}

\* The worker that runs: build_specs (deps/registry.py, conf/resolver.py) or
\* the earlier build_deps (deps/dep.py, deps/actions.py).
IsNew == stack[1].op = "build/specs"
IsOld == stack[1].op = "build/configs"

\* ConfResolver.resolve: the memo lookup.
IsResolved(fqn, memo) == fqn \in memo

\* can_resolve of the resolver registered under `name`.
\*   ConfResolver: the raw spec starts with `conf::`, or it has no prefix
\*     and its conf path exists;
\*   PathResolver: the resolver name, `path` by default, is path or dir;
\*   _Resolver of simple_resolver(name): the raw spec starts with `name::`.
can_resolve(name, raw) ==
    IF name = CONF_RESOLVER_NAME
    THEN raw.res = CONF_RESOLVER_NAME \/ (raw.res = "" /\ ConfPathExists(raw))
    ELSE IF name = "PathResolver"
    THEN ResolverName(raw, "path") \in {"path", "dir"}
    ELSE raw.res = name

RECURSIVE ResolveLoop(_, _, _)
ResolveLoop_LastMatch(rs, raw, i) ==
    LET ok == {k \in i .. Len(rs) : can_resolve(rs[k], raw)}
        m == IF ok = {} THEN Len(rs) ELSE CHOOSE k \in ok : \A j \in ok : j <= k
    IN [k \in 1 .. (m - i + 1) |-> <<"can_resolve", i + k - 1>>]
       \o (IF ok = {} THEN <<<<"raise", 0>>>> ELSE <<<<"resolve", m>>>>)

\* Registry.resolve: the calls made by `for resolver in self.resolvers`
\* from the i-th resolver on; the loop ends with the first resolver whose
\* can_resolve returns True, or with the RuntimeError.
ResolveLoop(rs, raw, i) ==
    IF i > Len(rs) THEN <<<<"raise", 0>>>>
    ELSE IF can_resolve(rs[i], raw)
    THEN <<<<"can_resolve", i>>, <<"resolve", i>>>>
    ELSE <<<<"can_resolve", i>>>> \o ResolveLoop(rs, raw, i + 1)

\* Registry.resolve: the resolver whose resolve is called; 0 if the loop
\* ends with the RuntimeError.
FirstResolver(raw) ==
    LET calls == ResolveLoop(resolvers, raw, 1)
        hit == {k \in 1 .. Len(calls) : calls[k][1] = "resolve"}
    IN IF hit = {} THEN 0 ELSE calls[CHOOSE k \in hit : TRUE][2]

\* action._fn up to the start of the wrapped function: a new Operation is
\* opened below the active one and becomes the active one.
CallAction(op_name, caller, arg, stk, evs) ==
    LET p == NewOpPath(active_op_path, op_name, seq_id)
    IN /\ seq_id' = seq_id + 1
       /\ events' = Append(evs, EvStart(op_name, p, caller, arg))
       /\ active_op_path' = p
       /\ stack' = Append(stk, Frame("act", op_name, p, active_op_path, caller, "body", arg))

\* Registry.resolve(raw) called from the frame on top of stk.
RegistryResolve(raw, ctx, stk, evs) ==
    LET i == FirstResolver(raw)
        fqn == Fqn(raw)
    IN /\ requested' = [requested EXCEPT ![fqn] = @ + 1]
       /\ dispatch' = [raw |-> raw, calls |-> ResolveLoop(resolvers, raw, 1)]
       /\ UNCHANGED <<deps_map, resolvers>>
       /\ IF i = 0
          THEN \* RuntimeError: Cannot find a handler
               /\ exc' = TRUE
               /\ stack' = stk
               /\ events' = evs
               /\ UNCHANGED <<seq_id, active_op_path, resolved, depCreated, parent>>
          ELSE IF resolvers[i] = CONF_RESOLVER_NAME
          THEN IF IsResolved(fqn, resolved)
               THEN \* the memoized Dep is returned
                    /\ stack' = stk
                    /\ events' = evs
                    /\ UNCHANGED <<exc, seq_id, active_op_path, resolved, depCreated, parent>>
               ELSE \* a ConfDep is created, stored, and built
                    /\ parent' = [parent EXCEPT ![fqn] = ctx]
                    /\ resolved' = resolved \cup {fqn}
                    /\ depCreated' = [depCreated EXCEPT ![fqn] = @ + 1]
                    /\ CallAction("build/dep", fqn, NoSpec, stk, evs)
                    /\ UNCHANGED exc
          ELSE \* simple_resolver: a fresh Dep, and its `run` action;
               \* PathResolver: a fresh PathDep, and its mkpath action
               /\ depCreated' = [depCreated EXCEPT ![fqn] = @ + 1]
               /\ CallAction(IF resolvers[i] = "PathResolver" THEN "mkpath"
                              ELSE "run/" \o resolvers[i], fqn, NoSpec, stk, evs)
               /\ UNCHANGED <<exc, resolved, parent>>

\* ------------------------------------------------------------------- Init
\* The worker process before build_specs is entered: nothing sent, nothing
\* resolved, no resolver registered, no Ctx written.
WorkerStart ==
    /\ stack = <<>>
    /\ exc = FALSE
    /\ ret = "value"
    /\ events = <<>>
    /\ seq_id = 0
    /\ active_op_path = <<>>
    /\ resolved = {}
    /\ deps_map = {}
    /\ units = [f \in Fqns |-> "?"]
    /\ requested = [f \in Fqns |-> 0]
    /\ depCreated = [f \in Fqns |-> 0]
    /\ fnCalls = [f \in Fqns |-> 0]
    /\ raisedIn = {}
    /\ reraised = {}
    /\ exitStatus = <<>>
    /\ resolvers = <<>>
    /\ dispatch = [raw |-> NoSpec, calls |-> <<>>]
    /\ layer = [c \in Fqns \cup {GlobalCtx} |-> ""]
    /\ parent = [f \in Fqns |-> GlobalCtx]

\* Ctx(): global_ctx is the only Ctx, and it is empty.
CtxStart ==
    /\ nctx = 1
    /\ ctx_parent = [c \in 0 .. MaxCtx - 1 |-> -1]
    /\ ctx_maps = [c \in 0 .. MaxCtx - 1 |-> [k \in Keys |-> NoCell]]
    /\ written = [c \in 0 .. MaxCtx - 1 |->
                     [k \in Keys |-> [v |-> "", at |-> 0, overMemo |-> FALSE]]]
    /\ renders = [c \in 0 .. MaxCtx - 1 |-> [k \in Keys |-> 0]]
    /\ nrender = 0
    /\ nsteps = 0
    /\ lastOp = [op |-> "", c |-> 0, k |-> "", val |-> ""]

\* AsyncConn.__init__ on a new Pipe: nothing sent, the Event not set, the
\* delay at DEFAULT_SLEEP; recv() has not been iterated yet.
ChanStart ==
    /\ pipe = <<>>
    /\ sent = 0
    /\ rpc = "start"
    /\ held = 0
    /\ yielded = <<>>
    /\ sleeping_delay = DEFAULT_SLEEP
    /\ reset_flag = FALSE
    /\ armed = 0
    /\ idle = 0
    /\ wakes = 0
    /\ wokeInWait = FALSE
    /\ pending = FALSE
    /\ lastWait = [armed |-> 0, full |-> FALSE, woken |-> FALSE, signalled |-> FALSE]

\* OpsView.__init__ and a worker that has not opened an Operation yet.
UiStart ==
    /\ stream = <<>>
    /\ w_stack = <<>>
    /\ w_seq = 0
    /\ w_state = "run"
    /\ w_extra = 0
    /\ ui_pos = 0
    /\ ops_map = <<>>
    /\ root_op = <<>>
    /\ listen = "running"
    /\ ui_polls = 0

\* No spec string handed to a parser yet.
ParseStart ==
    /\ p_raw = <<>>
    /\ p_depth = 0
    /\ p_resolvers = <<>>
    /\ p_out = NoOut

\* No function called on drawn arguments yet.
CallStart ==
    /\ call_in = NoCall
    /\ call_out = NoCall

Init ==
    /\ specs \in SeqsUpTo(RawSpecs, MaxSpecs)
    /\ rootExists \in BOOLEAN
    /\ WorkerStart
    /\ max_ops = MaxOps
    /\ CtxStart
    /\ ChanStart
    /\ UiStart
    /\ ParseStart
    /\ CallStart

\* ------------------------------------------------------------ build_specs
\* build_specs: `with ops_tracking.op("build/specs") as op:` is entered.
BuildSpecsEnter ==
    /\ exitStatus = <<>>
    /\ stack = <<>>
    /\ events = <<>>
    /\ LET p == NewOpPath(active_op_path, "build/specs", seq_id)
       IN /\ seq_id' = seq_id + 1
          /\ events' = <<EvStart("build/specs", p, NoDep, NoSpec)>>
          /\ active_op_path' = p
          /\ stack' = <<Frame("specs", "build/specs", p, active_op_path, NoDep, "setup", NoSpec)>>
    /\ UNCHANGED <<specs, rootExists, exc, ret, resolved, deps_map, units, requested, depCreated, fnCalls,
                   raisedIn, reraised, exitStatus>>
    /\ UNCHANGED <<resolvers, dispatch>>
    /\ UNCHANGED <<max_ops, layer, parent>>
    /\ UNCHANGED <<ctxVars, chanVars, uiVars, parseVars, callVars>>

\* registry.setup_resolvers(DEFAULT_RESOLVERS); conf.setup sets the root
\* unit's module-level configuration with a caller-less conf(...) call.
SetupResolvers ==
    /\ stack # <<>> /\ ~exc
    /\ IsNew
    /\ Top.kind = "specs" /\ Top.pc = "setup"
    /\ LET evs == Append(events, EvDebug(Top.path))
           stk == SetTop([Top EXCEPT !.pc = "resolving"])
       IN IF rootExists
          THEN /\ CallAction("use/conf", NoDep, NoSpec, stk, evs)
               /\ \E plugins \in PluginLists : resolvers' = DEFAULT_RESOLVERS \o plugins
          ELSE /\ stack' = stk
               /\ events' = evs
               /\ resolvers' = DEFAULT_RESOLVERS
               /\ UNCHANGED <<seq_id, active_op_path>>
    /\ UNCHANGED dispatch
    /\ UNCHANGED <<specs, rootExists, exc, ret, resolved, deps_map, units, requested, depCreated, fnCalls,
                   raisedIn, reraised, exitStatus>>
    /\ UNCHANGED <<max_ops, layer, parent>>
    /\ UNCHANGED <<ctxVars, chanVars, uiVars, parseVars, callVars>>

\* The specs build_specs resolves: `if not specs: specs = ['conf:::main']`.
EffectiveSpecs == IF specs = <<>> THEN <<root_conf_dep>> ELSE specs

\* build_specs: one turn of `for spec in specs: registry.resolve(spec)`.
ResolveNextSpec ==
    /\ stack # <<>> /\ ~exc
    /\ IsNew
    /\ Top.kind = "specs" /\ Top.pc = "resolving"
    /\ Top.n < Len(EffectiveSpecs)
    /\ RegistryResolve(EffectiveSpecs[Top.n + 1], GlobalCtx,
                       SetTop([Top EXCEPT !.n = @ + 1]),
                       Append(events, EvDebug(Top.path)))
    /\ UNCHANGED <<specs, rootExists, ret, units, fnCalls, raisedIn, reraised, exitStatus>>
    /\ UNCHANGED <<max_ops, layer>>
    /\ UNCHANGED <<ctxVars, chanVars, uiVars, parseVars, callVars>>

\* The exit code of the worker process: 1 if build_specs ends with an
\* exception, 0 if it returns.
ExitCode(raises) == IF raises THEN 1 ELSE 0

\* build_specs: the loop is over, the `with` block ends normally.
BuildSpecsFinish ==
    /\ stack # <<>> /\ ~exc
    /\ IsNew
    /\ Top.kind = "specs" /\ Top.pc = "resolving"
    /\ Top.n = Len(EffectiveSpecs)
    /\ events' = Append(events, EvDebug(Top.path)) \o OpExitEvents(Top.op, Top.path, FALSE)
    /\ active_op_path' = ResetToken(Top)
    /\ stack' = Front(stack)
    /\ exitStatus' = <<ExitCode(FALSE)>>
    /\ UNCHANGED <<specs, rootExists, exc, ret, seq_id, resolved, deps_map, units, requested, depCreated,
                   fnCalls, raisedIn, reraised>>
    /\ UNCHANGED <<resolvers, dispatch>>
    /\ UNCHANGED <<max_ops, layer, parent>>
    /\ UNCHANGED <<ctxVars, chanVars, uiVars, parseVars, callVars>>

\* build_specs: an exception reaches the `with` block; the context manager
\* reports it and swallows it, build_specs returns.
BuildSpecsError ==
    /\ stack # <<>> /\ exc
    /\ IsNew
    /\ Top.kind = "specs"
    /\ events' = events \o OpExitEvents(Top.op, Top.path, TRUE)
    /\ active_op_path' = ResetToken(Top)
    /\ raisedIn' = raisedIn \cup {Top.path}
    /\ stack' = Front(stack)
    /\ exc' = FALSE
    /\ exitStatus' = <<ExitCode(FALSE)>>
    /\ UNCHANGED <<specs, rootExists, ret, seq_id, resolved, deps_map, units, requested, depCreated,
                   fnCalls, reraised>>
    /\ UNCHANGED <<resolvers, dispatch>>
    /\ UNCHANGED <<max_ops, layer, parent>>
    /\ UNCHANGED <<ctxVars, chanVars, uiVars, parseVars, callVars>>

\* ------------------------------------------------------- the build action
\* build (conf/actions.py): the build unit is loaded and its module-level
\* configuration is set with dep.conf(...); a unit that cannot be loaded
\* raises.
BuildLoad ==
    /\ stack # <<>> /\ ~exc
    /\ IsNew
    /\ Top.kind = "act" /\ Top.op = "build/dep" /\ Top.pc = "body"
    /\ \E u \in UnitChoices(Top.caller) :
         /\ units' = [units EXCEPT ![Top.caller] = u]
         /\ IF u # "noload"
            THEN /\ CallAction("use/conf", Top.caller, NoSpec,
                               SetTop([Top EXCEPT !.pc = "conf_done"]), events)
                 /\ UNCHANGED exc
            ELSE /\ exc' = TRUE
                 /\ UNCHANGED <<stack, events, seq_id, active_op_path>>
    /\ UNCHANGED <<specs, rootExists, ret, resolved, deps_map, requested, depCreated,
                   fnCalls, raisedIn, reraised, exitStatus>>
    /\ UNCHANGED <<resolvers, dispatch>>
    /\ UNCHANGED <<max_ops, layer, parent>>
    /\ UNCHANGED <<ctxVars, chanVars, uiVars, parseVars, callVars>>

\* build (conf/actions.py): the entry function is looked up and called
\* with the Dep; a unit without an entry function raises.
BuildCallFn ==
    /\ stack # <<>> /\ ~exc
    /\ IsNew
    /\ Top.kind = "act" /\ Top.op = "build/dep" /\ Top.pc = "conf_done"
    /\ IF units[Top.caller] = "ok"
       THEN /\ events' = Append(events, Ev("op/progress", Top.op, Top.path))
            /\ fnCalls' = [fnCalls EXCEPT ![Top.caller] = @ + 1]
            /\ stack' = Append(SetTop([Top EXCEPT !.pc = "done"]),
                               Frame("code", "", <<>>, <<>>, Top.caller, "body", NoSpec))
            /\ UNCHANGED exc
       ELSE /\ exc' = TRUE
            /\ UNCHANGED <<stack, events, fnCalls>>
    /\ UNCHANGED <<specs, rootExists, ret, seq_id, active_op_path, resolved,
                   deps_map, units, requested, depCreated, raisedIn, reraised,
                   exitStatus>>
    /\ UNCHANGED <<resolvers, dispatch>>
    /\ UNCHANGED <<max_ops, layer, parent>>
    /\ UNCHANGED <<ctxVars, chanVars, uiVars, parseVars, callVars>>

\* ------------------------------------------------------------ target code
\* The actions target code calls on its Dep.
CodeOps == {"use/dep", "use/conf", "run/sh"}

\* Dep.resolve_action: the callable bound to the Dep passes it as __caller.
BoundCaller(dep) == dep

\* Target code calls one of its Dep's actions.
CodeCall ==
    /\ stack # <<>> /\ ~exc
    /\ Top.kind = "code" /\ Top.n < MaxBody
    /\ seq_id < (IF IsNew THEN max_ops ELSE MaxOpsOld)
    /\ \E op_name \in CodeOps :
       \E raw \in IF op_name = "use/dep" THEN CodeSpecs
                  ELSE IF op_name = "use/conf" THEN {ConfKw(ConfValue(Top.caller))}
                  ELSE {NoSpec} :
          CallAction(op_name, BoundCaller(Top.caller), raw,
                     SetTop([Top EXCEPT !.n = @ + 1]), events)
    /\ UNCHANGED <<specs, rootExists, exc, ret, resolved, deps_map, units, requested, depCreated, fnCalls,
                   raisedIn, reraised, exitStatus>>
    /\ UNCHANGED <<resolvers, dispatch>>
    /\ UNCHANGED <<max_ops, layer, parent>>
    /\ UNCHANGED <<ctxVars, chanVars, uiVars, parseVars, callVars>>

\* Target code raises outside of any action.
CodeRaise ==
    /\ stack # <<>> /\ ~exc
    /\ Top.kind = "code"
    /\ stack' = Front(stack)
    /\ exc' = TRUE
    /\ UNCHANGED <<specs, rootExists, ret, events, seq_id, active_op_path,
                   resolved, deps_map, units, requested, depCreated, fnCalls, raisedIn, reraised, exitStatus>>
    /\ UNCHANGED <<resolvers, dispatch>>
    /\ UNCHANGED <<max_ops, layer, parent>>
    /\ UNCHANGED <<ctxVars, chanVars, uiVars, parseVars, callVars>>

\* The entry function returns.
CodeReturn ==
    /\ stack # <<>> /\ ~exc
    /\ Top.kind = "code"
    /\ stack' = Front(stack)
    /\ ret' = "value"
    /\ UNCHANGED <<specs, rootExists, exc, events, seq_id, active_op_path,
                   resolved, deps_map, units, requested, depCreated, fnCalls, raisedIn, reraised, exitStatus>>
    /\ UNCHANGED <<resolvers, dispatch>>
    /\ UNCHANGED <<max_ops, layer, parent>>
    /\ UNCHANGED <<ctxVars, chanVars, uiVars, parseVars, callVars>>

\* An action called by target code raised: the entry function ends with it.
CodePropagate ==
    /\ stack # <<>> /\ exc
    /\ Top.kind = "code"
    /\ stack' = Front(stack)
    /\ UNCHANGED <<specs, rootExists, exc, ret, events, seq_id, active_op_path,
                   resolved, deps_map, units, requested, depCreated, fnCalls, raisedIn, reraised, exitStatus>>
    /\ UNCHANGED <<resolvers, dispatch>>
    /\ UNCHANGED <<max_ops, layer, parent>>
    /\ UNCHANGED <<ctxVars, chanVars, uiVars, parseVars, callVars>>

\* ---------------------------------------------------------- other actions
LeafOps == {"use/conf", "render/str", "run/path", "run/dir", "mkpath"}

\* conf, render_str and the simple resolvers' run: the body runs and
\* returns, or raises.  render_str reports the rendered text.
LeafRun ==
    /\ stack # <<>> /\ ~exc
    /\ Top.kind = "act" /\ Top.op \in LeafOps /\ Top.pc = "body"
    /\ \E fails \in BOOLEAN :
         IF fails
         THEN /\ exc' = TRUE
              /\ UNCHANGED <<stack, events, layer>>
         ELSE /\ stack' = SetTop([Top EXCEPT !.pc = "done"])
              /\ events' = IF Top.op = "render/str"
                           THEN Append(events, Ev("op/progress", Top.op, Top.path))
                           ELSE events
              /\ layer' = IF Top.op = "use/conf" /\ Top.arg # NoSpec
                          THEN [layer EXCEPT ![ExecutionCtx(Top.caller)] = Top.arg.q]
                          ELSE layer
              /\ UNCHANGED exc
    /\ UNCHANGED <<specs, rootExists, ret, seq_id, active_op_path, resolved,
                   deps_map, units, requested, depCreated, fnCalls, raisedIn, reraised, exitStatus>>
    /\ UNCHANGED <<resolvers, dispatch>>
    /\ UNCHANGED <<max_ops, parent>>
    /\ UNCHANGED <<ctxVars, chanVars, uiVars, parseVars, callVars>>

\* dep and sh: the argument is rendered first, by the caller's render_str.
RenderArg ==
    /\ stack # <<>> /\ ~exc
    /\ Top.kind = "act" /\ Top.op \in {"use/dep", "run/sh"} /\ Top.pc = "body"
    /\ CallAction("render/str", BoundCaller(Top.caller), NoSpec,
                  SetTop([Top EXCEPT !.pc = "rendered"]), events)
    /\ UNCHANGED <<specs, rootExists, exc, ret, resolved, deps_map, units, requested, depCreated, fnCalls,
                   raisedIn, reraised, exitStatus>>
    /\ UNCHANGED <<resolvers, dispatch>>
    /\ UNCHANGED <<max_ops, layer, parent>>
    /\ UNCHANGED <<ctxVars, chanVars, uiVars, parseVars, callVars>>

\* dep: the rendered spec is reported and handed to registry.resolve.  A
\* muted render_str returned None, which no resolver can inspect.
DepResolve ==
    /\ stack # <<>> /\ ~exc
    /\ IsNew
    /\ Top.kind = "act" /\ Top.op = "use/dep" /\ Top.pc = "rendered"
    /\ LET evs == Append(events, Ev("op/progress", Top.op, Top.path))
       IN IF ret = "None"
          THEN /\ exc' = TRUE
               /\ events' = evs
               /\ UNCHANGED <<stack, seq_id, active_op_path, resolved, deps_map,
                              requested, depCreated, resolvers, dispatch, parent>>
          ELSE RegistryResolve(Top.arg, ExecutionCtx(Top.caller),
                               SetTop([Top EXCEPT !.pc = "done"]), evs)
    /\ UNCHANGED <<specs, rootExists, ret, units, fnCalls, raisedIn, reraised, exitStatus>>
    /\ UNCHANGED <<max_ops, layer>>
    /\ UNCHANGED <<ctxVars, chanVars, uiVars, parseVars, callVars>>

\* sh: the command is started (or cannot be), its pid reported.
ShStart ==
    /\ stack # <<>> /\ ~exc
    /\ Top.kind = "act" /\ Top.op = "run/sh" /\ Top.pc = "rendered"
    /\ \E fails \in BOOLEAN :
         IF fails \/ ret = "None"
         THEN /\ exc' = TRUE
              /\ UNCHANGED <<stack, events>>
         ELSE /\ stack' = SetTop([Top EXCEPT !.pc = "running"])
              /\ events' = events \o <<Ev("op/progress", Top.op, Top.path),
                                       Ev("op/progress", Top.op, Top.path)>>
              /\ UNCHANGED exc
    /\ UNCHANGED <<specs, rootExists, ret, seq_id, active_op_path, resolved,
                   deps_map, units, requested, depCreated, fnCalls, raisedIn, reraised, exitStatus>>
    /\ UNCHANGED <<resolvers, dispatch>>
    /\ UNCHANGED <<max_ops, layer, parent>>
    /\ UNCHANGED <<ctxVars, chanVars, uiVars, parseVars, callVars>>

\* sh: one line of the command's output goes to the Operation's log.
ShLog ==
    /\ stack # <<>> /\ ~exc
    /\ Top.kind = "act" /\ Top.op = "run/sh" /\ Top.pc = "running"
    /\ Top.n < MaxLogs
    /\ stack' = SetTop([Top EXCEPT !.n = @ + 1])
    /\ events' = Append(events, Ev("op/log", Top.op, Top.path))
    /\ UNCHANGED <<specs, rootExists, exc, ret, seq_id, active_op_path, resolved,
                   deps_map, units, requested, depCreated, fnCalls, raisedIn, reraised, exitStatus>>
    /\ UNCHANGED <<resolvers, dispatch>>
    /\ UNCHANGED <<max_ops, layer, parent>>
    /\ UNCHANGED <<ctxVars, chanVars, uiVars, parseVars, callVars>>

\* sh: the command ended, its exit code is reported.
ShEnd ==
    /\ stack # <<>> /\ ~exc
    /\ Top.kind = "act" /\ Top.op = "run/sh" /\ Top.pc = "running"
    /\ stack' = SetTop([Top EXCEPT !.pc = "done"])
    /\ events' = Append(events, Ev("op/progress", Top.op, Top.path))
    /\ UNCHANGED <<specs, rootExists, exc, ret, seq_id, active_op_path, resolved,
                   deps_map, units, requested, depCreated, fnCalls, raisedIn, reraised, exitStatus>>
    /\ UNCHANGED <<resolvers, dispatch>>
    /\ UNCHANGED <<max_ops, layer, parent>>
    /\ UNCHANGED <<ctxVars, chanVars, uiVars, parseVars, callVars>>

\* ------------------------------------------------- the end of an action
\* action._fn: the wrapped function returned; the `with` block ends.
ActionReturn ==
    /\ stack # <<>> /\ ~exc
    /\ Top.kind = "act" /\ Top.pc = "done"
    /\ events' = events \o OpExitEvents(Top.op, Top.path, FALSE)
    /\ active_op_path' = ResetToken(Top)
    /\ stack' = Front(stack)
    /\ ret' = "value"
    /\ UNCHANGED <<specs, rootExists, exc, seq_id, resolved, deps_map, units, requested, depCreated, fnCalls,
                   raisedIn, reraised, exitStatus>>
    /\ UNCHANGED <<resolvers, dispatch>>
    /\ UNCHANGED <<max_ops, layer, parent>>
    /\ UNCHANGED <<ctxVars, chanVars, uiVars, parseVars, callVars>>

\* action._fn: the wrapped function raised.  The context manager reports
\* the error and ends the Operation; then the error is raised again, or
\* muted (the call returns None).
ActionError ==
    /\ stack # <<>> /\ exc
    /\ IsNew
    /\ Top.kind = "act"
    /\ active_op_path' = ResetToken(Top)
    /\ raisedIn' = raisedIn \cup {Top.path}
    /\ stack' = Front(stack)
    /\ events' = events \o OpExitEvents(Top.op, Top.path, TRUE)
                        \o (IF ShouldLogMuted(TRUE, Top.caller)
                            THEN <<EvDebug(Top.tok)>> ELSE <<>>)
    /\ IF ShouldReraise(TRUE, Top.caller)
       THEN /\ reraised' = reraised \cup {Top.path}
            /\ UNCHANGED <<exc, ret>>
       ELSE /\ exc' = FALSE
            /\ ret' = "None"
            /\ UNCHANGED reraised
    /\ UNCHANGED <<specs, rootExists, seq_id, resolved, deps_map, units, requested, depCreated, fnCalls,
                   exitStatus>>
    /\ UNCHANGED <<resolvers, dispatch>>
    /\ UNCHANGED <<max_ops, layer, parent>>
    /\ UNCHANGED <<ctxVars, chanVars, uiVars, parseVars, callVars>>

\* ------------------------------------------------------------------- Next
Next ==
    \/ BuildSpecsEnter
    \/ SetupResolvers
    \/ ResolveNextSpec
    \/ BuildSpecsFinish
    \/ BuildSpecsError
    \/ BuildLoad
    \/ BuildCallFn
    \/ CodeCall
    \/ CodeRaise
    \/ CodeReturn
    \/ CodePropagate
    \/ LeafRun
    \/ RenderArg
    \/ DepResolve
    \/ ShStart
    \/ ShLog
    \/ ShEnd
    \/ ActionReturn
    \/ ActionError

Spec == Init /\ [][Next]_vars

\* Builds of the two targets conf::a and conf::b without a root build
\* unit, with room for each target to call dep and conf.
ScopeSpecs == { [res |-> "conf", body |-> "a", q |-> ""],
                [res |-> "conf", body |-> "b", q |-> ""] }

InitScope ==
    /\ specs \in SeqsUpTo(ScopeSpecs, MaxSpecs) \ {<<>>}
    /\ rootExists = FALSE
    /\ WorkerStart
    /\ max_ops = MaxOpsScope
    /\ CtxStart
    /\ ChanStart
    /\ UiStart
    /\ ParseStart
    /\ CallStart

SpecScope == InitScope /\ [][Next]_vars

\* ======================================================================
\* The earlier worker: build_deps with Registry.dep / Dep.resolve
\* (deps/dep.py) and the actions of deps/actions.py.  It shares the
\* Operation tracking (wire/events.py) and the shape of the target code.
\* ======================================================================

\* parse_spec (deps/dep.py): the `?query` part is split off for every
\* resolver; the fqn is resolver_name::spec, with the registry's
\* default_resolver_name for a spec without a prefix, which
\* ConfResolver.setup has set to its own name before the first Registry.dep.
FqnOld(raw) == [res |-> ResolverName(raw, CONF_RESOLVER_NAME), body |-> raw.body, q |-> ""]

\* get_resolver: only ConfResolver is registered; any other resolver name
\* gets UnknownResolver, whose create_dep raises.
HasResolver(raw) == FqnOld(raw).res = CONF_RESOLVER_NAME

\* functools.cache on Dep.resolve: a hit needs a stored result.
CacheHit(fqn, memo) == fqn \in memo

\* functools.cache on Dep.resolve: a result is stored when the call
\* returns; a call that raises stores nothing.
CacheStore(fqn, memo, raised) == IF raised THEN memo ELSE memo \cup {fqn}

\* registry.dep(raw) followed by d.resolve(), called from the frame on top
\* of stk; `via` tells whether Registry.resolve wraps the call.
RequestDep(raw, via, stk, evs) ==
    LET fqn == FqnOld(raw)
    IN /\ requested' = [requested EXCEPT ![fqn] = @ + 1]
       /\ IF ~HasResolver(raw) /\ fqn \notin deps_map
          THEN /\ exc' = TRUE
               /\ stack' = stk
               /\ events' = events
               /\ UNCHANGED <<deps_map, depCreated>>
          ELSE /\ deps_map' = deps_map \cup {fqn}
               /\ depCreated' = IF fqn \in deps_map THEN depCreated
                                ELSE [depCreated EXCEPT ![fqn] = @ + 1]
               /\ events' = evs
               /\ stack' = IF CacheHit(fqn, resolved) THEN stk
                           ELSE Append(stk, Frame("resolve", via, <<>>, <<>>, fqn, "body", NoSpec))
               /\ UNCHANGED exc

\* build_deps: `with ops_tracking.op("build/configs") as op:` is entered.
BuildDepsEnter ==
    /\ exitStatus = <<>>
    /\ stack = <<>>
    /\ events = <<>>
    /\ LET p == NewOpPath(active_op_path, "build/configs", seq_id)
       IN /\ seq_id' = seq_id + 1
          /\ events' = <<EvStart("build/configs", p, NoDep, NoSpec)>>
          /\ active_op_path' = p
          /\ stack' = <<Frame("specs", "build/configs", p, active_op_path, NoDep, "setup", NoSpec)>>
    /\ UNCHANGED <<specs, rootExists, exc, ret, resolved, deps_map, units, requested,
                   depCreated, fnCalls, raisedIn, reraised, exitStatus>>
    /\ UNCHANGED <<resolvers, dispatch>>
    /\ UNCHANGED <<max_ops, layer, parent>>
    /\ UNCHANGED <<ctxVars, chanVars, uiVars, parseVars, callVars>>

\* registry.setup_resolvers(): ConfResolver.setup resolves the root Dep
\* through Registry.resolve if the root build unit exists.
SetupRootDep ==
    /\ stack # <<>> /\ ~exc
    /\ IsOld
    /\ Top.kind = "specs" /\ Top.pc = "setup"
    /\ LET evs == Append(events, EvDebug(Top.path))
           stk == SetTop([Top EXCEPT !.pc = "resolving"])
       IN IF rootExists
          THEN RequestDep(root_conf_dep, "Registry.resolve", stk, evs)
          ELSE /\ stack' = stk
               /\ events' = evs
               /\ UNCHANGED <<exc, deps_map, requested, depCreated>>
    /\ UNCHANGED <<specs, rootExists, ret, seq_id, active_op_path, resolved, units,
                   fnCalls, raisedIn, reraised, exitStatus>>
    /\ UNCHANGED <<resolvers, dispatch>>
    /\ UNCHANGED <<max_ops, layer, parent>>
    /\ UNCHANGED <<ctxVars, chanVars, uiVars, parseVars, callVars>>

\* build_deps: one turn of `for dep in map(registry.dep, deps): dep.resolve()`.
ResolveNextDep ==
    /\ stack # <<>> /\ ~exc
    /\ IsOld
    /\ Top.kind = "specs" /\ Top.pc = "resolving"
    /\ Top.n < Len(specs)
    /\ RequestDep(specs[Top.n + 1], "Dep.resolve",
                  SetTop([Top EXCEPT !.n = @ + 1]),
                  Append(events, EvDebug(Top.path)))
    /\ UNCHANGED <<specs, rootExists, ret, seq_id, active_op_path, resolved, units,
                   fnCalls, raisedIn, reraised, exitStatus>>
    /\ UNCHANGED <<resolvers, dispatch>>
    /\ UNCHANGED <<max_ops, layer, parent>>
    /\ UNCHANGED <<ctxVars, chanVars, uiVars, parseVars, callVars>>

\* build_deps: the loop is over, the `with` block ends normally.
BuildDepsFinish ==
    /\ stack # <<>> /\ ~exc
    /\ IsOld
    /\ Top.kind = "specs" /\ Top.pc = "resolving"
    /\ Top.n = Len(specs)
    /\ events' = Append(events, EvDebug(Top.path)) \o OpExitEvents(Top.op, Top.path, FALSE)
    /\ active_op_path' = ResetToken(Top)
    /\ stack' = Front(stack)
    /\ exitStatus' = <<ExitCode(FALSE)>>
    /\ UNCHANGED <<specs, rootExists, exc, ret, seq_id, resolved, deps_map, units,
                   requested, depCreated, fnCalls, raisedIn, reraised>>
    /\ UNCHANGED <<resolvers, dispatch>>
    /\ UNCHANGED <<max_ops, layer, parent>>
    /\ UNCHANGED <<ctxVars, chanVars, uiVars, parseVars, callVars>>

\* build_deps: an exception reaches the `with` block and is swallowed there.
BuildDepsError ==
    /\ stack # <<>> /\ exc
    /\ IsOld
    /\ Top.kind = "specs"
    /\ events' = events \o OpExitEvents(Top.op, Top.path, TRUE)
    /\ active_op_path' = ResetToken(Top)
    /\ raisedIn' = raisedIn \cup {Top.path}
    /\ stack' = Front(stack)
    /\ exc' = FALSE
    /\ exitStatus' = <<ExitCode(FALSE)>>
    /\ UNCHANGED <<specs, rootExists, ret, seq_id, resolved, deps_map, units,
                   requested, depCreated, fnCalls, reraised>>
    /\ UNCHANGED <<resolvers, dispatch>>
    /\ UNCHANGED <<max_ops, layer, parent>>
    /\ UNCHANGED <<ctxVars, chanVars, uiVars, parseVars, callVars>>

\* ConfResolver.resolve (deps/dep.py): the build unit is loaded and its
\* module-level configuration is set with dep.conf(...).
ResolveLoad ==
    /\ stack # <<>> /\ ~exc
    /\ Top.kind = "resolve" /\ Top.pc = "body"
    /\ \E u \in UnitChoices(Top.caller) :
         /\ units' = [units EXCEPT ![Top.caller] = u]
         /\ IF u # "noload"
            THEN /\ CallAction("use/conf", Top.caller, NoSpec,
                               SetTop([Top EXCEPT !.pc = "conf_done"]), events)
                 /\ UNCHANGED exc
            ELSE /\ exc' = TRUE
                 /\ UNCHANGED <<stack, events, seq_id, active_op_path>>
    /\ UNCHANGED <<specs, rootExists, ret, resolved, deps_map, requested, depCreated,
                   fnCalls, raisedIn, reraised, exitStatus>>
    /\ UNCHANGED <<resolvers, dispatch>>
    /\ UNCHANGED <<max_ops, layer, parent>>
    /\ UNCHANGED <<ctxVars, chanVars, uiVars, parseVars, callVars>>

\* ConfResolver.resolve (deps/dep.py): `return dep_fn(dep)`, or the
\* RuntimeError of a unit without an entry function.
ResolveCallFn ==
    /\ stack # <<>> /\ ~exc
    /\ Top.kind = "resolve" /\ Top.pc = "conf_done"
    /\ IF units[Top.caller] = "ok"
       THEN /\ fnCalls' = [fnCalls EXCEPT ![Top.caller] = @ + 1]
            /\ stack' = Append(SetTop([Top EXCEPT !.pc = "done"]),
                               Frame("code", "", <<>>, <<>>, Top.caller, "body", NoSpec))
            /\ UNCHANGED exc
       ELSE /\ exc' = TRUE
            /\ UNCHANGED <<stack, fnCalls>>
    /\ UNCHANGED <<specs, rootExists, ret, events, seq_id, active_op_path, resolved,
                   deps_map, units, requested, depCreated, raisedIn, reraised,
                   exitStatus>>
    /\ UNCHANGED <<resolvers, dispatch>>
    /\ UNCHANGED <<max_ops, layer, parent>>
    /\ UNCHANGED <<ctxVars, chanVars, uiVars, parseVars, callVars>>

\* Dep.resolve returns: the result enters the cache.
ResolveReturn ==
    /\ stack # <<>> /\ ~exc
    /\ Top.kind = "resolve" /\ Top.pc = "done"
    /\ resolved' = CacheStore(Top.caller, resolved, FALSE)
    /\ stack' = Front(stack)
    /\ ret' = "value"
    /\ UNCHANGED <<specs, rootExists, exc, events, seq_id, active_op_path, deps_map,
                   units, requested, depCreated, fnCalls, raisedIn, reraised,
                   exitStatus>>
    /\ UNCHANGED <<resolvers, dispatch>>
    /\ UNCHANGED <<max_ops, layer, parent>>
    /\ UNCHANGED <<ctxVars, chanVars, uiVars, parseVars, callVars>>

\* Dep.resolve raises.  Registry.resolve mutes the error of a failsafe Dep
\* with a debug line; any other caller gets the exception.
ResolveError ==
    /\ stack # <<>> /\ exc
    /\ Top.kind = "resolve"
    /\ resolved' = CacheStore(Top.caller, resolved, TRUE)
    /\ stack' = Front(stack)
    /\ IF Top.op = "Registry.resolve" /\ Failsafe(Top.caller)
       THEN /\ events' = Append(events, EvDebug(active_op_path))
            /\ exc' = FALSE
            /\ ret' = "None"
       ELSE UNCHANGED <<events, exc, ret>>
    /\ UNCHANGED <<specs, rootExists, seq_id, active_op_path, deps_map, units,
                   requested, depCreated, fnCalls, raisedIn, reraised, exitStatus>>
    /\ UNCHANGED <<resolvers, dispatch>>
    /\ UNCHANGED <<max_ops, layer, parent>>
    /\ UNCHANGED <<ctxVars, chanVars, uiVars, parseVars, callVars>>

\* dep (deps/actions.py): the rendered spec is reported, the Dep is looked
\* up or created with registry.dep and resolved with d.resolve().
DepActionResolve ==
    /\ stack # <<>> /\ ~exc
    /\ IsOld
    /\ Top.kind = "act" /\ Top.op = "use/dep" /\ Top.pc = "rendered"
    /\ LET evs == Append(events, Ev("op/progress", Top.op, Top.path))
       IN IF ret = "None"
          THEN /\ exc' = TRUE
               /\ events' = evs
               /\ UNCHANGED <<stack, deps_map, requested, depCreated>>
          ELSE /\ RequestDep(Top.arg, "Dep.resolve", SetTop([Top EXCEPT !.pc = "done"]), evs)
    /\ UNCHANGED <<specs, rootExists, ret, seq_id, active_op_path, resolved, units,
                   fnCalls, raisedIn, reraised, exitStatus>>
    /\ UNCHANGED <<resolvers, dispatch>>
    /\ UNCHANGED <<max_ops, layer, parent>>
    /\ UNCHANGED <<ctxVars, chanVars, uiVars, parseVars, callVars>>

\* action._fn (deps/actions.py): the wrapped function raised inside the
\* `with` block; the context manager reports the error and swallows it,
\* the call returns None.
SwallowedActionError ==
    /\ stack # <<>> /\ exc
    /\ IsOld
    /\ Top.kind = "act"
    /\ events' = events \o OpExitEvents(Top.op, Top.path, TRUE)
    /\ active_op_path' = ResetToken(Top)
    /\ raisedIn' = raisedIn \cup {Top.path}
    /\ stack' = Front(stack)
    /\ exc' = FALSE
    /\ ret' = "None"
    /\ UNCHANGED <<specs, rootExists, seq_id, resolved, deps_map, units, requested,
                   depCreated, fnCalls, reraised, exitStatus>>
    /\ UNCHANGED <<resolvers, dispatch>>
    /\ UNCHANGED <<max_ops, layer, parent>>
    /\ UNCHANGED <<ctxVars, chanVars, uiVars, parseVars, callVars>>

NextOld ==
    \/ BuildDepsEnter
    \/ SetupRootDep
    \/ ResolveNextDep
    \/ BuildDepsFinish
    \/ BuildDepsError
    \/ ResolveLoad
    \/ ResolveCallFn
    \/ ResolveReturn
    \/ ResolveError
    \/ CodeCall
    \/ CodeRaise
    \/ CodeReturn
    \/ LeafRun
    \/ RenderArg
    \/ DepActionResolve
    \/ ShStart
    \/ ShLog
    \/ ShEnd
    \/ ActionReturn
    \/ SwallowedActionError

SpecOld == Init /\ [][NextOld]_vars

\* ======================================================================
\* The Ctx objects by themselves: Ctx (a ChainMap) with new_child, the
\* writes of conf and the reads of Ctx.__getattr__, with LazyTemplate cells.
\* ======================================================================
CtxIds == 0 .. nctx - 1

\* ChainMap.__getitem__: the Ctx of the chain of c whose own mapping has
\* the key, -1 if none has (KeyError).
RECURSIVE Holder(_, _)
Holder(c, k) ==
    IF ctx_maps[c][k].kind # "none" THEN c
    ELSE IF ctx_parent[c] = -1 THEN -1
    ELSE Holder(ctx_parent[c], k)

\* What the template engine prints for key y looked up in the Ctx c: the
\* empty string for an undefined name, a plain value as it is, and a
\* LazyTemplate through its __str__; the strings given to y are literals,
\* which render to themselves.
PrintY(c) ==
    LET h == Holder(c, "y")
    IN IF h = -1 THEN "" ELSE ctx_maps[h]["y"].v

\* render_str of the Dep that owns Ctx c, applied to a template string.
RenderStr(template, c) == IF template = "{{y}}" THEN PrintY(c) ELSE template

\* LazyTemplate.__str__ calls while RenderStr(template, c) prints y.
NestedRenders(template, c) ==
    LET h == Holder(c, "y")
    IN IF template = "{{y}}" /\ h # -1 /\ ctx_maps[h]["y"].kind = "lazy" THEN 1 ELSE 0

NestCtx_Eager(val, c) == [kind |-> "val", v |-> RenderStr(val, c)]

\* conf, _nest_ctx: a string becomes a LazyTemplate bound to the render_str
\* of the calling Dep, whose Ctx is c.
NestCtx(val, c) == [kind |-> "lazy", v |-> val]

MemoLayer_Holder(c, h) == h

\* Ctx.__getattr__: `self[name] = val` writes the first mapping of the Ctx
\* that is read through, whichever mapping h of its chain held the cell.
MemoLayer(c, h) == c

ConfWrite_KeepMemo(cell, new) == IF cell.kind = "val" THEN cell ELSE new

\* conf: `execution_ctx[k] = _nest_ctx(v)` replaces whatever the mapping held.
ConfWrite(cell, new) == new

\* ctx.new_child(): a new Ctx whose chain is a new empty mapping followed
\* by the chain of its parent.
CtxNewChild ==
    /\ nsteps < MaxSteps /\ nctx < MaxCtx
    /\ \E p \in CtxIds :
         /\ ctx_parent' = [ctx_parent EXCEPT ![nctx] = p]
         /\ lastOp' = [op |-> "new_child", c |-> nctx, k |-> "", val |-> ""]
    /\ nctx' = nctx + 1
    /\ nsteps' = nsteps + 1
    /\ UNCHANGED <<ctx_maps, written, renders, nrender>>
    /\ UNCHANGED <<workerVars, chanVars, uiVars, parseVars, callVars>>

\* conf(k=v) called on the Dep whose Ctx is c.
CtxConf ==
    /\ nsteps < MaxSteps
    /\ \E c \in CtxIds : \E k \in Keys : \E v \in ConfStrings(k) :
         /\ ctx_maps' = [ctx_maps EXCEPT ![c][k] = ConfWrite(@, NestCtx(v, c))]
         /\ written' = [written EXCEPT ![c][k] =
                            [v |-> v, at |-> nsteps + 1,
                             overMemo |-> ctx_maps[c][k].kind = "val" /\ @.v # ""]]
         /\ renders' = [renders EXCEPT ![c][k] = 0]
         /\ lastOp' = [op |-> "conf", c |-> c, k |-> k, val |-> v]
    /\ nsteps' = nsteps + 1
    /\ UNCHANGED <<nctx, ctx_parent, nrender>>
    /\ UNCHANGED <<workerVars, chanVars, uiVars, parseVars, callVars>>

\* getattr(ctx, k), Ctx.__getattr__: AttributeError for a missing key; a
\* LazyTemplate is rendered, stored under the key and returned; any other
\* value is returned as it is.
CtxGetAttr ==
    /\ nsteps < MaxSteps
    /\ \E c \in CtxIds : \E k \in Keys :
         LET h == Holder(c, k)
         IN IF h = -1
            THEN /\ lastOp' = [op |-> "read", c |-> c, k |-> k, val |-> "AttributeError"]
                 /\ UNCHANGED <<ctx_maps, renders, nrender>>
            ELSE IF ctx_maps[h][k].kind = "lazy"
            THEN LET val == RenderStr(ctx_maps[h][k].v, h)
                 IN /\ ctx_maps' = [ctx_maps EXCEPT ![MemoLayer(c, h)][k] =
                                                        [kind |-> "val", v |-> val]]
                    /\ renders' = [renders EXCEPT ![h][k] = @ + 1]
                    /\ nrender' = nrender + 1 + NestedRenders(ctx_maps[h][k].v, h)
                    /\ lastOp' = [op |-> "read", c |-> c, k |-> k, val |-> val]
            ELSE /\ lastOp' = [op |-> "read", c |-> c, k |-> k, val |-> ctx_maps[h][k].v]
                 /\ UNCHANGED <<ctx_maps, renders, nrender>>
    /\ nsteps' = nsteps + 1
    /\ UNCHANGED <<nctx, ctx_parent, written>>
    /\ UNCHANGED <<workerVars, chanVars, uiVars, parseVars, callVars>>

\* What getattr(ctx, k) on the Ctx c returns in the current state.
ReadValue(c, k) ==
    LET h == Holder(c, k)
    IN IF h = -1 THEN "AttributeError"
       ELSE IF ctx_maps[h][k].kind = "lazy" THEN RenderStr(ctx_maps[h][k].v, h)
       ELSE ctx_maps[h][k].v

InitCtx ==
    /\ specs = <<>>
    /\ rootExists = FALSE
    /\ WorkerStart
    /\ max_ops = 0
    /\ CtxStart
    /\ ChanStart
    /\ UiStart
    /\ ParseStart
    /\ CallStart

NextCtx ==
    \/ CtxNewChild
    \/ CtxConf
    \/ CtxGetAttr

SpecCtx == InitCtx /\ [][NextCtx]_vars

\* ======================================================================
\* The channel: the worker sends events into a Pipe, the observer iterates
\* AsyncConn.recv() on its event loop.  recv runs from one suspension
\* point to the next in one step; other coroutines of the observer (the
\* caller of reset_sleeping_delay, the one that cancels) run only while
\* recv is suspended.
\* ======================================================================
Min(a, b) == IF a < b THEN a ELSE b

NextDelay_NoCap(delay, is_set) ==
    IF is_set THEN DEFAULT_SLEEP
    ELSE (delay * GROWING_SLEEP_MULTIPLIER[1]) \div GROWING_SLEEP_MULTIPLIER[2]

\* recv, after the wait: the delay of the next wait.
NextDelay(delay, is_set) ==
    IF is_set THEN DEFAULT_SLEEP
    ELSE Min((delay * GROWING_SLEEP_MULTIPLIER[1]) \div GROWING_SLEEP_MULTIPLIER[2], MAX_SLEEP)

SetEvent_Noop(is_set) == is_set

\* reset_sleeping_delay: the Event after `self._reset_sleeping_delay.set()`.
SetEvent(is_set) == TRUE

\* recv, the top of `while True` up to the next suspension point, with the
\* delay d: an event in the pipe is taken and recv sleeps 10 ms; without
\* one the Event is cleared and recv waits for the Event or the delay.
LoopTop(d) ==
    /\ sleeping_delay' = d
    /\ IF pipe # <<>>
       THEN /\ held' = Head(pipe)
            /\ pipe' = Tail(pipe)
            /\ rpc' = "got"
            /\ pending' = FALSE
            /\ UNCHANGED <<reset_flag, armed, wokeInWait>>
       ELSE /\ reset_flag' = FALSE
            /\ armed' = d
            /\ rpc' = "waiting"
            /\ wokeInWait' = FALSE
            /\ UNCHANGED <<held, pipe, pending>>

\* The consumer starts `async for event in channel.recv()`.
RecvStart ==
    /\ rpc = "start"
    /\ LoopTop(sleeping_delay)
    /\ UNCHANGED <<sent, yielded, idle, wakes, lastWait>>
    /\ UNCHANGED <<workerVars, ctxVars, uiVars, parseVars, callVars>>

RecvYield_Drop ==
    /\ rpc = "got"
    /\ sleeping_delay' = DEFAULT_SLEEP
    /\ idle' = 0
    /\ yielded' = yielded
    /\ held' = 0
    /\ rpc' = "yielded"
    /\ UNCHANGED <<pipe, sent, reset_flag, armed, wakes, wokeInWait, pending, lastWait>>
    /\ UNCHANGED <<workerVars, ctxVars, uiVars, parseVars, callVars>>

\* recv: `await asyncio.sleep(0.01)` is over; the delay is reset and the
\* event is yielded.
RecvYield ==
    /\ rpc = "got"
    /\ sleeping_delay' = DEFAULT_SLEEP
    /\ idle' = 0
    /\ yielded' = Append(yielded, held)
    /\ held' = 0
    /\ rpc' = "yielded"
    /\ UNCHANGED <<pipe, sent, reset_flag, armed, wakes, wokeInWait, pending, lastWait>>
    /\ UNCHANGED <<workerVars, ctxVars, uiVars, parseVars, callVars>>

\* The consumer has handled the event and asks for the next one.
RecvResume ==
    /\ rpc = "yielded"
    /\ LoopTop(sleeping_delay)
    /\ UNCHANGED <<sent, yielded, idle, wakes, lastWait>>
    /\ UNCHANGED <<workerVars, ctxVars, uiVars, parseVars, callVars>>

\* recv: the wait ends because the delay has elapsed, the Event not set.
WaitTimeout ==
    /\ rpc = "waiting" /\ ~reset_flag
    /\ idle < MaxIdle
    /\ idle' = idle + 1
    /\ lastWait' = [armed |-> armed, full |-> TRUE, woken |-> wokeInWait,
                    signalled |-> pending]
    /\ LoopTop(NextDelay(sleeping_delay, reset_flag))
    /\ UNCHANGED <<sent, yielded, wakes>>
    /\ UNCHANGED <<workerVars, ctxVars, uiVars, parseVars, callVars>>

\* recv: the wait ends because the Event was set.
WaitWoken ==
    /\ rpc = "waiting" /\ reset_flag
    /\ idle' = 0
    /\ lastWait' = [armed |-> armed, full |-> FALSE, woken |-> wokeInWait,
                    signalled |-> pending]
    /\ LET d == NextDelay(sleeping_delay, reset_flag)
       IN /\ sleeping_delay' = d
          /\ IF pipe # <<>>
             THEN /\ held' = Head(pipe)
                  /\ pipe' = Tail(pipe)
                  /\ rpc' = "got"
                  /\ UNCHANGED <<reset_flag, armed, wokeInWait>>
             ELSE /\ reset_flag' = FALSE
                  /\ armed' = d
                  /\ rpc' = "waiting"
                  /\ wokeInWait' = FALSE
                  /\ UNCHANGED <<held, pipe>>
    /\ pending' = FALSE
    /\ UNCHANGED <<sent, yielded, wakes>>
    /\ UNCHANGED <<workerVars, ctxVars, uiVars, parseVars, callVars>>

\* The worker sends an event: Connection.send on its end of the Pipe.
ChanSend ==
    /\ sent < MaxMsgs
    /\ sent' = sent + 1
    /\ pipe' = Append(pipe, sent + 1)
    /\ pending' = TRUE
    /\ UNCHANGED <<rpc, held, yielded, sleeping_delay, reset_flag, armed, idle, wakes,
                   wokeInWait, lastWait>>
    /\ UNCHANGED <<workerVars, ctxVars, uiVars, parseVars, callVars>>

\* reset_sleeping_delay, called by another coroutine of the observer while
\* recv is suspended (or not started yet).
ResetSleepingDelay ==
    /\ rpc \in {"start", "got", "yielded", "waiting"}
    /\ wakes < MaxWakes
    /\ wakes' = wakes + 1
    /\ reset_flag' = SetEvent(reset_flag)
    /\ wokeInWait' = (wokeInWait \/ rpc = "waiting")
    /\ pending' = TRUE
    /\ UNCHANGED <<pipe, sent, rpc, held, yielded, sleeping_delay, armed, idle, lastWait>>
    /\ UNCHANGED <<workerVars, ctxVars, uiVars, parseVars, callVars>>

\* A shutdown request cancels the task that iterates recv: CancelledError
\* is raised at the await (or yield) where recv is suspended, and recv's
\* locals are gone.
RecvCancel ==
    /\ rpc \in {"got", "yielded", "waiting"}
    /\ rpc' = "cancelled"
    /\ held' = 0
    /\ UNCHANGED <<pipe, sent, yielded, sleeping_delay, reset_flag, armed, idle, wakes,
                   wokeInWait, pending, lastWait>>
    /\ UNCHANGED <<workerVars, ctxVars, uiVars, parseVars, callVars>>

InitChan ==
    /\ specs = <<>>
    /\ rootExists = FALSE
    /\ WorkerStart
    /\ max_ops = 0
    /\ CtxStart
    /\ ChanStart
    /\ UiStart
    /\ ParseStart
    /\ CallStart

NextChan ==
    \/ RecvStart
    \/ RecvYield
    \/ RecvResume
    \/ WaitTimeout
    \/ WaitWoken
    \/ ChanSend
    \/ ResetSleepingDelay
    \/ RecvCancel

SpecChan == InitChan /\ [][NextChan]_vars

\* ======================================================================
\* The observer: OpsView.listen_to_channel builds a tree of Operations
\* from the events it is handed by AsyncConn.recv, one event per step.
\* The worker side is OpsTracking.op and OpWrapper alone: Operations
\* nested as the worker nests them, each sending its events when it is
\* opened, while it runs and when it is left.
\* ======================================================================
DataKeys == {"cmd", "exitcode"}

\* A data dict of an event: every key of DataKeys mapped to its value, 0
\* for a key the dict does not have.
NoData == [k \in DataKeys |-> 0]

\* An event as it is pickled into the pipe.
WireEv(typ, op_name, path, data) ==
    [typ |-> typ, op |-> op_name, path |-> path, data |-> data]

\* The Operations the worker opens inside an Operation of the given kind:
\* build_specs resolves specs, a Dep's build function calls actions, the
\* dep action resolves a spec.
ChildOps(op_name) ==
    CASE op_name = "" -> {"build/specs"}
      [] op_name = "build/specs" -> {"build/dep"}
      [] op_name = "build/dep" -> {"use/dep", "run/sh"}
      [] op_name = "use/dep" -> {"build/dep"}
      [] op_name = "build/configs" -> {"run/sh"}
      [] OTHER -> {}

WTop == w_stack[Len(w_stack)]

\* The worker is running and the pipe has room for what it sends next.
WCanSend == w_state = "run" /\ Len(stream) - ui_pos < MaxLag

\* OpsTracking.op, entry; run/sh is opened with cmd=...
WOpEnter ==
    /\ WCanSend
    /\ w_seq < MaxUiOps
    /\ (w_stack = <<>>) => w_seq = 0
    /\ \E op_name \in ChildOps(IF w_stack = <<>> THEN "" ELSE WTop.op) :
         LET path == NewOpPath(IF w_stack = <<>> THEN <<>> ELSE WTop.path, op_name, w_seq)
             data == IF op_name = "run/sh" THEN [NoData EXCEPT !["cmd"] = 1] ELSE NoData
         IN /\ stream' = Append(stream, WireEv("op/start", op_name, path, data))
            /\ w_stack' = Append(w_stack, [op |-> op_name, path |-> path])
            /\ w_seq' = w_seq + 1
    /\ UNCHANGED <<w_state, w_extra, ui_pos, ops_map, root_op, listen, ui_polls>>
    /\ UNCHANGED <<workerVars, ctxVars, chanVars, parseVars, callVars>>

\* OpWrapper.log.
WOpLog ==
    /\ WCanSend /\ w_stack # <<>> /\ w_extra < MaxUiExtra
    /\ WTop.op = "run/sh"
    /\ stream' = Append(stream, WireEv("op/log", WTop.op, WTop.path, NoData))
    /\ w_extra' = w_extra + 1
    /\ UNCHANGED <<w_stack, w_seq, w_state, ui_pos, ops_map, root_op, listen, ui_polls>>
    /\ UNCHANGED <<workerVars, ctxVars, chanVars, parseVars, callVars>>

\* OpWrapper.progress(**data).
WOpProgress ==
    /\ WCanSend /\ w_stack # <<>> /\ w_extra < MaxUiExtra
    /\ WTop.op = "run/sh"
    /\ \E data \in {[NoData EXCEPT !["cmd"] = 2], [cmd |-> 3, exitcode |-> 1]} :
         stream' = Append(stream, WireEv("op/progress", WTop.op, WTop.path, data))
    /\ w_extra' = w_extra + 1
    /\ UNCHANGED <<w_stack, w_seq, w_state, ui_pos, ops_map, root_op, listen, ui_polls>>
    /\ UNCHANGED <<workerVars, ctxVars, chanVars, parseVars, callVars>>

\* OpWrapper.debug, called by build_specs on the build/specs Operation
\* between the specs it resolves.
WOpDebug ==
    /\ WCanSend /\ w_stack # <<>> /\ w_extra < MaxUiExtra
    /\ WTop.op = "build/specs"
    /\ stream' = Append(stream, WireEv("internal/debug", "", WTop.path, NoData))
    /\ w_extra' = w_extra + 1
    /\ UNCHANGED <<w_stack, w_seq, w_state, ui_pos, ops_map, root_op, listen, ui_polls>>
    /\ UNCHANGED <<workerVars, ctxVars, chanVars, parseVars, callVars>>

\* An event of a kind added to the wire contract later, sent by a newer
\* worker.
WFutureKind ==
    /\ WCanSend /\ w_stack # <<>> /\ w_extra < MaxUiExtra
    /\ stream' = Append(stream, WireEv("future/kind", WTop.op, WTop.path, NoData))
    /\ w_extra' = w_extra + 1
    /\ UNCHANGED <<w_stack, w_seq, w_state, ui_pos, ops_map, root_op, listen, ui_polls>>
    /\ UNCHANGED <<workerVars, ctxVars, chanVars, parseVars, callVars>>

\* The events of an Operation whose code stopped with UserStop: Stop, no
\* Error, then Finish.
StopExitEvents(op_name, path) ==
    <<WireEv("op/stop", op_name, path, NoData), WireEv("op/finish", op_name, path, NoData)>>

WireExitEvents_FinishFirst(op_name, path, failed) ==
    LET evs == OpExitEvents(op_name, path, failed)
    IN [i \in 1 .. Len(evs) |->
          WireEv(evs[Len(evs) + 1 - i].typ, evs[i].op, evs[i].path, NoData)]

\* OpsTracking.op as events on the wire.
WireExitEvents(op_name, path, failed) ==
    LET evs == OpExitEvents(op_name, path, failed)
    IN [i \in 1 .. Len(evs) |-> WireEv(evs[i].typ, evs[i].op, evs[i].path, NoData)]

\* OpsTracking.op, exit: the wrapped code has returned, raised or stopped.
WOpExit ==
    /\ WCanSend /\ w_stack # <<>>
    /\ \E outcome \in (IF WTop.op = "build/dep" THEN {"ok", "error", "stop"} ELSE {"ok", "error"}) :
         stream' = stream \o
            (IF outcome = "stop" THEN StopExitEvents(WTop.op, WTop.path)
             ELSE WireExitEvents(WTop.op, WTop.path, outcome = "error"))
    /\ w_stack' = Front(w_stack)
    /\ w_state' = IF Len(w_stack) = 1 THEN "done" ELSE "run"
    /\ UNCHANGED <<w_seq, w_extra, ui_pos, ops_map, root_op, listen, ui_polls>>
    /\ UNCHANGED <<workerVars, ctxVars, chanVars, parseVars, callVars>>

\* run_worker's _stop: the host terminates the worker process.
WTerminate ==
    /\ w_state = "run"
    /\ w_state' = "killed"
    /\ UNCHANGED <<stream, w_stack, w_seq, w_extra, ui_pos, ops_map, root_op, listen, ui_polls>>
    /\ UNCHANGED <<workerVars, ctxVars, chanVars, parseVars, callVars>>

\* ---- the observer
\* OPS_UI_MAP and build_op: the class of the Operation built for an op name.
OpClass(op_name) ==
    CASE op_name = "build/specs" -> "OpBuildConfigs"
      [] op_name = "build/dep" -> "OpBuildDep"
      [] op_name = "use/dep" -> "OpUseDep"
      [] op_name = "run/sh" -> "OpRunSh"
      [] OTHER -> "OpBase"

\* build_op and OpBase.__post_init__: a new Operation with the Start
\* event's data.
BuildOp(op_name, op_data) ==
    [op_name |-> op_name, cls |-> OpClass(op_name), started |-> FALSE, finished |-> FALSE,
     error |-> FALSE, stop_reason |-> FALSE, data |-> op_data, logs |-> <<>>, ops |-> <<>>]

\* OpBase.state.
OpState(op) ==
    IF ~op.started THEN "init"
    ELSE IF ~op.finished THEN "in-progress"
    ELSE IF op.error \/ op.stop_reason THEN "failed"
    ELSE "succeeded"

RECURSIVE GetParentNode(_, _, _)
\* OpsView.get_parent_node: the longest prefix of op_path, op_path itself
\* first, that is a key of ops_map; <<>> stands for None.
GetParentNode(map, op_path, l) ==
    IF l = 0 THEN <<>>
    ELSE IF SubSeq(op_path, 1, l) \in DOMAIN map THEN SubSeq(op_path, 1, l)
    ELSE GetParentNode(map, op_path, l - 1)

\* listen_to_channel, EvOpStart: the Operation the new one is appended
\* to; <<>> when it is appended to none.
AttachTo(root, cls, parent_node) ==
    IF root # <<>> /\ cls = "OpBuildDep" THEN root ELSE parent_node

DataUpdate_Replace(old, new) == new

\* dict.update: the keys of `new` overwrite, the others stay.
DataUpdate(old, new) == [k \in DataKeys |-> IF new[k] # 0 THEN new[k] ELSE old[k]]

UiEvent == stream[ui_pos + 1]

UiCanHandle == listen = "running" /\ ui_pos < Len(stream)

\* self.ops_map[op_path] with one field of the Operation changed; a
\* missing key is a KeyError that ends listen_to_channel.
UiUpdate(op_path, new_op) ==
    /\ ops_map' = [ops_map EXCEPT ![op_path] = new_op]
    /\ listen' = listen

UiKeyError ==
    /\ listen' = "failed"
    /\ ops_map' = ops_map

\* case EvOpStart.
UiOpStart ==
    /\ UiCanHandle /\ UiEvent.typ = "op/start"
    /\ LET ev == UiEvent
           op == BuildOp(ev.op, ev.data)
           root == IF root_op = <<>> /\ op.cls = "OpBuildConfigs" THEN ev.path ELSE root_op
           parent_node == GetParentNode(ops_map, ev.path, Len(ev.path))
           to == AttachTo(root, op.cls, parent_node)
           keys == DOMAIN ops_map \cup {ev.path}
           attached == [p \in keys |->
                          IF p = to /\ p \in DOMAIN ops_map
                          THEN [ops_map[p] EXCEPT !.ops = Append(@, ev.path)]
                          ELSE IF p \in DOMAIN ops_map THEN ops_map[p] ELSE op]
       IN /\ root_op' = root
          /\ ops_map' = [attached EXCEPT ![ev.path] = [op EXCEPT !.started = TRUE]]
    /\ ui_pos' = ui_pos + 1
    /\ UNCHANGED <<stream, w_stack, w_seq, w_state, w_extra, listen, ui_polls>>
    /\ UNCHANGED <<workerVars, ctxVars, chanVars, parseVars, callVars>>

\* case EvOpLog.
UiOpLog ==
    /\ UiCanHandle /\ UiEvent.typ = "op/log"
    /\ IF UiEvent.path \in DOMAIN ops_map
       THEN UiUpdate(UiEvent.path, [ops_map[UiEvent.path] EXCEPT !.logs = Append(@, "log")])
       ELSE UiKeyError
    /\ ui_pos' = ui_pos + 1
    /\ UNCHANGED <<stream, w_stack, w_seq, w_state, w_extra, root_op, ui_polls>>
    /\ UNCHANGED <<workerVars, ctxVars, chanVars, parseVars, callVars>>

\* case EvOpProgress.
UiOpProgress ==
    /\ UiCanHandle /\ UiEvent.typ = "op/progress"
    /\ IF UiEvent.path \in DOMAIN ops_map
       THEN UiUpdate(UiEvent.path,
                     [ops_map[UiEvent.path] EXCEPT !.data = DataUpdate(@, UiEvent.data)])
       ELSE UiKeyError
    /\ ui_pos' = ui_pos + 1
    /\ UNCHANGED <<stream, w_stack, w_seq, w_state, w_extra, root_op, ui_polls>>
    /\ UNCHANGED <<workerVars, ctxVars, chanVars, parseVars, callVars>>

\* case EvOpError.
UiOpError ==
    /\ UiCanHandle /\ UiEvent.typ = "op/error"
    /\ IF UiEvent.path \in DOMAIN ops_map
       THEN UiUpdate(UiEvent.path,
                     [ops_map[UiEvent.path] EXCEPT !.error = TRUE, !.logs = Append(@, "tb")])
       ELSE UiKeyError
    /\ ui_pos' = ui_pos + 1
    /\ UNCHANGED <<stream, w_stack, w_seq, w_state, w_extra, root_op, ui_polls>>
    /\ UNCHANGED <<workerVars, ctxVars, chanVars, parseVars, callVars>>

\* case EvOpStop.
UiOpStop ==
    /\ UiCanHandle /\ UiEvent.typ = "op/stop"
    /\ IF UiEvent.path \in DOMAIN ops_map
       THEN UiUpdate(UiEvent.path, [ops_map[UiEvent.path] EXCEPT !.stop_reason = TRUE])
       ELSE UiKeyError
    /\ ui_pos' = ui_pos + 1
    /\ UNCHANGED <<stream, w_stack, w_seq, w_state, w_extra, root_op, ui_polls>>
    /\ UNCHANGED <<workerVars, ctxVars, chanVars, parseVars, callVars>>

\* case EvOpFinish: the loop returns after the Finish of build/specs.
UiOpFinish ==
    /\ UiCanHandle /\ UiEvent.typ = "op/finish"
    /\ IF UiEvent.path \in DOMAIN ops_map
       THEN /\ ops_map' = [ops_map EXCEPT ![UiEvent.path].finished = TRUE]
            /\ listen' = IF UiEvent.op = "build/specs" THEN "returned" ELSE listen
       ELSE UiKeyError
    /\ ui_pos' = ui_pos + 1
    /\ UNCHANGED <<stream, w_stack, w_seq, w_state, w_extra, root_op, ui_polls>>
    /\ UNCHANGED <<workerVars, ctxVars, chanVars, parseVars, callVars>>

\* case EvDebug: the line goes to root_op's logs, or without a root_op to
\* ops_map[op_path].
UiDebug ==
    /\ UiCanHandle /\ UiEvent.typ = "internal/debug"
    /\ LET to == IF root_op # <<>> THEN root_op ELSE UiEvent.path
       IN IF to \in DOMAIN ops_map
          THEN UiUpdate(to, [ops_map[to] EXCEPT !.logs = Append(@, "DEBUG")])
          ELSE UiKeyError
    /\ ui_pos' = ui_pos + 1
    /\ UNCHANGED <<stream, w_stack, w_seq, w_state, w_extra, root_op, ui_polls>>
    /\ UNCHANGED <<workerVars, ctxVars, chanVars, parseVars, callVars>>

KnownKinds ==
    {"op/start", "op/log", "op/progress", "op/error", "op/stop", "op/finish",
     "internal/debug"}

MatchFallThrough_Raise(l) == "failed"

\* A match statement none of whose cases matches does nothing: the state
\* of the loop after it.
MatchFallThrough(l) == l

\* The match statement has no case for the event: nothing is done and the
\* loop goes on to the next event.
UiNoCase ==
    /\ UiCanHandle /\ UiEvent.typ \notin KnownKinds
    /\ ui_pos' = ui_pos + 1
    /\ listen' = MatchFallThrough(listen)
    /\ UNCHANGED <<stream, w_stack, w_seq, w_state, w_extra, ops_map, root_op, ui_polls>>
    /\ UNCHANGED <<workerVars, ctxVars, chanVars, parseVars, callVars>>

PeerEndOpen_ClosedOnExit(state) == state = "run"

\* Is the worker's end of the Pipe still open somewhere?  create_channel
\* makes both ends in the observer's process and run_worker hands one to
\* the worker without closing the observer's own: it stays open whatever
\* happens to the worker.
PeerEndOpen(state) == TRUE

\* AsyncConn.recv finds no event in the pipe: poll() is false while the
\* peer end is open and recv waits; with the peer end closed poll() is
\* true and Connection.recv raises EOFError out of listen_to_channel.
UiPollEmpty ==
    /\ listen = "running" /\ ui_pos = Len(stream)
    /\ ui_polls < MaxUiPolls
    /\ ui_polls' = ui_polls + 1
    /\ listen' = IF PeerEndOpen(w_state) THEN listen ELSE "failed"
    /\ UNCHANGED <<stream, w_stack, w_seq, w_state, w_extra, ui_pos, ops_map, root_op>>
    /\ UNCHANGED <<workerVars, ctxVars, chanVars, parseVars, callVars>>

InitUI ==
    /\ specs = <<>>
    /\ rootExists = FALSE
    /\ WorkerStart
    /\ max_ops = 0
    /\ CtxStart
    /\ ChanStart
    /\ UiStart
    /\ ParseStart
    /\ CallStart

NextUI ==
    \/ WOpEnter
    \/ WOpLog
    \/ WOpProgress
    \/ WOpDebug
    \/ WFutureKind
    \/ WOpExit
    \/ WTerminate
    \/ UiOpStart
    \/ UiOpLog
    \/ UiOpProgress
    \/ UiOpError
    \/ UiOpStop
    \/ UiOpFinish
    \/ UiDebug
    \/ UiNoCase
    \/ UiPollEmpty

SpecUI == InitUI /\ [][NextUI]_vars

\* build_deps and build_targets, the earlier workers: the root Operation
\* they open is build/configs.
WBuildDepsEnter ==
    /\ WCanSend
    /\ w_stack = <<>> /\ w_seq = 0
    /\ LET path == NewOpPath(<<>>, "build/configs", w_seq)
       IN /\ stream' = Append(stream, WireEv("op/start", "build/configs", path, NoData))
          /\ w_stack' = <<[op |-> "build/configs", path |-> path]>>
    /\ w_seq' = w_seq + 1
    /\ UNCHANGED <<w_state, w_extra, ui_pos, ops_map, root_op, listen, ui_polls>>
    /\ UNCHANGED <<workerVars, ctxVars, chanVars, parseVars, callVars>>

\* listen_to_channel handles the event recv yields.  The observer's event
\* loop keeps running the task while an event is waiting in the pipe.
UiStep ==
    \/ UiOpStart
    \/ UiOpLog
    \/ UiOpProgress
    \/ UiOpError
    \/ UiOpStop
    \/ UiOpFinish
    \/ UiDebug
    \/ UiNoCase

\* Any of the three workers with the observer, the observer's loop being
\* scheduled fairly.
SpecUIAny == InitUI /\ [][WBuildDepsEnter \/ NextUI]_vars /\ WF_vars(UiStep)

\* ======================================================================
\* Spec strings: the parsers and the registries' dispatch, computed on
\* the characters of the raw spec.
\* ======================================================================
S_conf == <<"c", "o", "n", "f">>
S_path == <<"p", "a", "t", "h">>

\* The raw specs handed to the parsers: an optional resolver prefix, a
\* body, an optional query.
RawStrings ==
    LET prefixes == { <<>>, <<":", ":">>, <<"c", "o", "n", "f", ":", ":">>, <<"p", "a", "t", "h", ":", ":">>, <<"z", "z", ":", ":">>, <<" ", "c", "o", "n", "f", ":", ":">> }
        bodies == { <<>>, <<"a">>, <<"x">>, <<".", ".", "/", "x">>, <<":", "m", "a", "i", "n">>, <<"a", ":", "t">>, <<"a", ":", ":", "b">> }
        queries == { <<>>, <<"?", "k", "=", "v">>, <<"?", "k", "=", "w">>, <<"?">>, <<"?", "k", "=", "v", "?", "j">> }
    IN { r \in { pre \o body \o qry : pre \in prefixes, body \in bodies, qry \in queries } :
           Len(r) <= MaxRawLen }

\* str.startswith.
StartsWith(str, pre) == Len(pre) <= Len(str) /\ SubSeq(str, 1, Len(pre)) = pre

\* str.strip.
Strip(str) ==
    LET ink == {i \in 1 .. Len(str) : str[i] # " "}
    IN IF ink = {} THEN <<>>
       ELSE SubSeq(str, CHOOSE i \in ink : \A j \in ink : i <= j,
                        CHOOSE i \in ink : \A j \in ink : j <= i)

\* str.split(pat, 1): one part, or the two parts around the first `pat`.
Split1(str, pat) ==
    LET at == {i \in 1 .. Len(str) - Len(pat) + 1 : SubSeq(str, i, i + Len(pat) - 1) = pat}
        first == CHOOSE i \in at : \A j \in at : i <= j
    IN IF at = {} THEN <<str>>
       ELSE <<SubSeq(str, 1, first - 1), SubSeq(str, first + Len(pat), Len(str))>>

\* str.rsplit(pat, 1): one part, or the two parts around the last `pat`.
RSplit1(str, pat) ==
    LET at == {i \in 1 .. Len(str) - Len(pat) + 1 : SubSeq(str, i, i + Len(pat) - 1) = pat}
        last == CHOOSE i \in at : \A j \in at : j <= i
    IN IF at = {} THEN <<str>>
       ELSE <<SubSeq(str, 1, last - 1), SubSeq(str, last + Len(pat), Len(str))>>

\* urllib.parse.parse_qsl(params, keep_blank_values=True) for a query
\* without `&`: no pair for an empty query, else the name and the value
\* around the first `=`.
ParseQsl(params) ==
    IF params = <<>> THEN {}
    ELSE LET nv == Split1(params, <<"=">>)
         IN {<<nv[1], IF Len(nv) = 2 THEN nv[2] ELSE <<>>>>}

\* dict(parse_qsl(params, keep_blank_values=True), __raw_extra_ctx__=params)
ExtraCtx(params) ==
    LET raw_key == <<"_", "_", "r", "a", "w", "_", "e", "x", "t", "r", "a", "_", "c", "t", "x", "_", "_">>
    IN {kv \in ParseQsl(params) : kv[1] # raw_key} \cup {<<raw_key, params>>}

\* parse_spec of deps/spec.py; fqn is Spec.fqn.
parse_spec(raw_spec, default_resolver_name) ==
    LET spec0 == Strip(raw_spec)
        parts == Split1(spec0, <<":", ":">>)
        name == IF Len(parts) = 2 THEN Strip(parts[1]) ELSE default_resolver_name
        spec == IF Len(parts) = 2 THEN Strip(parts[2]) ELSE spec0
        resolver_name == IF name # <<>> THEN name ELSE default_resolver_name
    IN [op |-> "parse_spec", raised |-> "", resolver_name |-> resolver_name, spec |-> spec,
        fqn |-> resolver_name \o <<":", ":">> \o spec, params |-> {}, to |-> ""]

\* parse_spec of deps/dep.py: the query is split off first.
parse_spec_dep(raw_spec, default_resolver_name) ==
    LET spec0 == Strip(raw_spec)
        qparts == RSplit1(spec0, <<"?">>)
        spec1 == IF Len(qparts) = 2 THEN Strip(qparts[1]) ELSE spec0
        extra_ctx == IF Len(qparts) = 2 THEN ExtraCtx(Strip(qparts[2])) ELSE {}
        parts == Split1(spec1, <<":", ":">>)
        name == IF Len(parts) = 2 THEN Strip(parts[1]) ELSE <<>>
        spec == IF Len(parts) = 2 THEN Strip(parts[2]) ELSE spec1
        resolver_name == IF name # <<>> THEN name ELSE default_resolver_name
    IN [op |-> "parse_spec_dep", raised |-> "", resolver_name |-> resolver_name, spec |-> spec,
        fqn |-> resolver_name \o <<":", ":">> \o spec, params |-> extra_ctx, to |-> ""]

RECURSIVE Climb(_)
\* A path without its leading `./` and `../`, and the number of `../`
\* that were taken off.
Climb(part) ==
    IF StartsWith(part, <<".", ".", "/">>)
    THEN LET up == Climb(SubSeq(part, 4, Len(part)))
         IN [ups |-> up.ups + 1, rest |-> up.rest]
    ELSE IF StartsWith(part, <<".", "/">>) THEN Climb(SubSeq(part, 3, Len(part)))
    ELSE [ups |-> 0, rest |-> part]

\* (conf_path / conf_path_part).resolve(): whether the path is outside
\* the configs root, and the path relative to the root.  A part that
\* starts with ./ or ../, or is empty, is taken from current_config_dir
\* (at `depth` below the root, in the directory `sub`), any other from
\* the root.
ResolvePath(part, depth) ==
    LET relative == StartsWith(part, <<".", "/">>) \/ StartsWith(part, <<".", ".", "/">>) \/ part = <<>>
        base == IF relative THEN depth ELSE 0
        left == base - Climb(part).ups
        rest == Climb(part).rest
    IN [outside |-> left < 0,
        rel |-> IF left = 1
                THEN (IF rest = <<>> THEN <<"s", "u", "b">> ELSE <<"s", "u", "b", "/">> \o rest)
                ELSE rest]

\* parse_conf_spec.  conf_path.relative_to(ctx.configs_root) raises
\* ValueError for a path that is not below the root.  `to` tells whether
\* conf_path exists: the root, the build units a and b, and the directory
\* `sub` of the unit that is being built do.
parse_conf_spec(raw_spec, depth) ==
    LET shaped(spec1, extra_ctx, target_name, at) ==
            LET reshape == StartsWith(spec1, <<".", "/">>) \/ StartsWith(spec1, <<".", ".", "/">>)
                               \/ StartsWith(spec1, <<":">>)
                spec == IF ~reshape THEN spec1
                        ELSE (IF at.rel = <<>> THEN <<".">> ELSE at.rel)
                                 \o (IF target_name # <<>> THEN <<":">> \o target_name ELSE <<>>)
            IN IF reshape /\ at.outside
               THEN [NoOut EXCEPT !.op = "parse_conf_spec", !.raised = "ValueError"]
               ELSE [op |-> "parse_conf_spec", raised |-> "", resolver_name |-> S_conf,
                     spec |-> spec, fqn |-> S_conf \o <<":", ":">> \o spec,
                     params |-> extra_ctx,
                     to |-> IF ~at.outside /\ at.rel \in { <<>>, <<"a">>, <<"b">>, <<"s", "u", "b">> }
                            THEN "exists" ELSE "missing"]
        targeted(spec1, extra_ctx, parts) ==
            shaped(spec1, extra_ctx,
                   IF Len(parts) = 2 THEN parts[2] ELSE <<>>,
                   ResolvePath(Strip(IF Len(parts) = 2 THEN parts[1] ELSE spec1), depth))
        queried(spec1, extra_ctx) == targeted(spec1, extra_ctx, RSplit1(spec1, <<":">>))
        split(spec, qparts) ==
            queried(IF Len(qparts) = 2 THEN Strip(qparts[1]) ELSE spec,
                    IF Len(qparts) = 2 THEN ExtraCtx(Strip(qparts[2])) ELSE {})
        checked(common_spec) ==
            IF common_spec.resolver_name # S_conf
            THEN [NoOut EXCEPT !.op = "parse_conf_spec", !.raised = "AssertionError"]
            ELSE split(common_spec.spec, RSplit1(common_spec.spec, <<"?">>))
    IN checked(parse_spec(raw_spec, S_conf))

\* can_resolve of the resolver registered under `name`: "yes", "no", or
\* the exception that leaves it.  ConfResolver catches AssertionError
\* only; the resolvers path and dir are simple resolvers.
CanResolveStr(name, raw_spec, depth) ==
    LET verdict(spec) ==
            IF spec.raised = "AssertionError" THEN "no"
            ELSE IF spec.raised # "" THEN spec.raised
            ELSE IF spec.resolver_name = S_conf /\ spec.to = "exists" THEN "yes"
            ELSE "no"
    IN IF name = "conf"
       THEN IF StartsWith(raw_spec, S_conf \o <<":", ":">>) THEN "yes"
            ELSE verdict(parse_conf_spec(raw_spec, depth))
       ELSE IF name = "PathResolver"
       THEN IF parse_spec(raw_spec, S_path).resolver_name \in {S_path, <<"d", "i", "r">>} THEN "yes" ELSE "no"
       ELSE IF StartsWith(raw_spec, (IF name = "path" THEN S_path ELSE <<"d", "i", "r">>) \o <<":", ":">>)
            THEN "yes" ELSE "no"

RECURSIVE DispatchStr(_, _, _, _)
\* Registry.resolve of deps/registry.py: the first resolver whose
\* can_resolve accepts gets the spec; an exception of can_resolve leaves
\* resolve; RuntimeError when no resolver accepts.
DispatchStr(rs, raw_spec, depth, i) ==
    LET asked(can) ==
            IF can = "yes" THEN [to |-> rs[i], raised |-> ""]
            ELSE IF can = "no" THEN DispatchStr(rs, raw_spec, depth, i + 1)
            ELSE [to |-> "", raised |-> can]
    IN IF i > Len(rs) THEN [to |-> "", raised |-> "RuntimeError"]
       ELSE asked(CanResolveStr(rs[i], raw_spec, depth))

\* ---- the calls
ParseSpecCall ==
    /\ \E default_resolver_name \in {S_conf, S_path, <<"<", "u", "n", "k", "n", "o", "w", "n", "-", "r", "e", "s", "o", "l", "v", "e", "r", ">">>} :
         p_out' = parse_spec(p_raw, default_resolver_name)
    /\ UNCHANGED <<p_raw, p_depth, p_resolvers>>
    /\ UNCHANGED <<workerVars, ctxVars, chanVars, uiVars, callVars>>

\* parse_spec of deps/dep.py with Registry.default_resolver_name, which
\* ConfResolver.setup has set to its own name.
ParseSpecDepCall ==
    /\ p_out' = parse_spec_dep(p_raw, S_conf)
    /\ UNCHANGED <<p_raw, p_depth, p_resolvers>>
    /\ UNCHANGED <<workerVars, ctxVars, chanVars, uiVars, callVars>>

ParseConfSpecCall ==
    /\ p_out' = parse_conf_spec(p_raw, p_depth)
    /\ UNCHANGED <<p_raw, p_depth, p_resolvers>>
    /\ UNCHANGED <<workerVars, ctxVars, chanVars, uiVars, callVars>>

\* Registry.resolve (deps/registry.py) up to the parse of the resolver
\* that got the spec: parse_conf_spec in ConfResolver, parse_spec with
\* default "path" in PathResolver, with "<unknown-resolver>" in a simple
\* resolver.
RegistryResolveCall ==
    /\ LET resolved_by(d, parsed) ==
               [parsed EXCEPT !.op = "Registry.resolve", !.to = d.to,
                              !.raised = IF d.to = "" THEN d.raised ELSE parsed.raised]
           dispatched(d) ==
               resolved_by(d, IF d.to = "" THEN NoOut
                              ELSE IF d.to = "conf" THEN parse_conf_spec(p_raw, p_depth)
                              ELSE IF d.to = "PathResolver" THEN parse_spec(p_raw, S_path)
                              ELSE parse_spec(p_raw, <<"<", "u", "n", "k", "n", "o", "w", "n", "-", "r", "e", "s", "o", "l", "v", "e", "r", ">">>))
       IN p_out' = dispatched(DispatchStr(p_resolvers, p_raw, p_depth, 1))
    /\ UNCHANGED <<p_raw, p_depth, p_resolvers>>
    /\ UNCHANGED <<workerVars, ctxVars, chanVars, uiVars, callVars>>

\* Registry.dep (deps/dep.py) up to create_dep: get_resolver picks the
\* resolver whose name is the parsed resolver_name, ConfResolver being
\* the only one registered, UnknownResolver otherwise.
RegistryDepCall ==
    /\ LET spec == parse_spec_dep(p_raw, S_conf)
       IN p_out' = [spec EXCEPT !.op = "Registry.dep",
                                !.to = IF spec.resolver_name = S_conf THEN "conf" ELSE "unknown"]
    /\ UNCHANGED <<p_raw, p_depth, p_resolvers>>
    /\ UNCHANGED <<workerVars, ctxVars, chanVars, uiVars, callVars>>

InitParse ==
    /\ specs = <<>>
    /\ rootExists = FALSE
    /\ WorkerStart
    /\ max_ops = 0
    /\ CtxStart
    /\ ChanStart
    /\ UiStart
    /\ p_raw \in RawStrings
    /\ p_depth \in {0, 1}
    /\ p_resolvers \in {DEFAULT_RESOLVERS \o plugins : plugins \in PluginLists}
    /\ p_out = NoOut
    /\ CallStart

NextParse ==
    \/ ParseSpecCall
    \/ ParseSpecDepCall
    \/ ParseConfSpecCall
    \/ RegistryResolveCall
    \/ RegistryDepCall

SpecParse == InitParse /\ [][NextParse]_vars

\* ======================================================================
\* Single functions called on drawn arguments (SpecCalls): the pipx
\* resolver of contrib/pipx.py and Dep.resolve_action of deps/dep.py.
\* ======================================================================

\* pipx(act): spec is dep.spec.spec, venvs the "venvs" object that
\* `pipx list --json` printed (package -> installed package_version),
\* exitcode the exit code of the install command, if one is run.  The
\* result is the returned status with the install command that was run
\* ("" for none) and the package spec handed to it.  The specs drawn hold
\* at most one `@`, where split('@') gives the parts around it; a version
\* of None and an empty version behave alike (`if version`, `version or ''`).
pipx(spec, venvs, exitcode) ==
    LET parts == Split1(spec, <<"@">>)
        package == parts[1]
        version == IF Len(parts) = 2 THEN parts[2] ELSE <<>>
        package_spec == IF version # <<>> THEN package \o <<"=", "=">> \o version ELSE package
        package_info == {v \in venvs : v[1] = package}
        installed_version == (CHOOSE v \in package_info : TRUE)[2]
        Ret(status, cmd) == [fn |-> "pipx", status |-> status, cmd |-> cmd,
                             package_spec |-> package_spec]
    IN IF package_info # {}
       THEN IF ~StartsWith(installed_version, version)
            THEN IF exitcode = 0 THEN Ret("installed", "pipx install --force")
                 ELSE Ret("unchanged", "pipx install --force")
            ELSE Ret("unchanged", "")
       ELSE IF exitcode = 0 THEN Ret("installed", "pipx install")
            ELSE Ret("failed", "pipx install")

\* Dep.resolve_action(action_name): actions is the Dep's actions dict in
\* its order, each entry with its key and its __confclt_action_name__ ("",
\* the getattr default, for a function that declares none); maps are the
\* mappings of the Dep's ctx, a ChainMap, the nearest first, which give
\* "callable", "value" or "absent" for a key.  The first matching action
\* wins, then the first mapping that holds the name; ChainMap raises
\* KeyError for a key no mapping holds.  What is returned calls the
\* function found with __caller=self.
resolve_action(self, actions, maps, action_name) ==
    LET matches == {i \in 1 .. Len(actions) :
                       action_name = actions[i].key \/ actions[i].name = action_name}
        first == CHOOSE i \in matches : \A j \in matches : i <= j
        holds == {m \in 1 .. Len(maps) : action_name \in DOMAIN maps[m] /\ maps[m][action_name] # "absent"}
        nearest == CHOOSE m \in holds : \A k \in holds : m <= k
        Bound(target) == [fn |-> "resolve_action", raised |-> "", target |-> target, caller |-> self]
        Raise(err) == [fn |-> "resolve_action", raised |-> err, target |-> <<>>, caller |-> NoDep]
    IN IF matches # {} THEN Bound(<<"actions", actions[first].key>>)
       ELSE IF holds = {} THEN Raise("KeyError")
       ELSE IF maps[nearest][action_name] = "callable" THEN Bound(<<"ctx", action_name>>)
       ELSE Raise("RuntimeError")

\* ---- the calls
PipxCall ==
    /\ call_in.fn = "pipx"
    /\ call_out = NoCall
    /\ call_out' = pipx(call_in.spec, call_in.venvs, call_in.exitcode)
    /\ UNCHANGED call_in
    /\ UNCHANGED <<workerVars, ctxVars, chanVars, uiVars, parseVars>>

ResolveActionCall ==
    /\ call_in.fn = "resolve_action"
    /\ call_out = NoCall
    /\ call_out' = resolve_action(call_in.self, call_in.actions, call_in.maps, call_in.action_name)
    /\ UNCHANGED call_in
    /\ UNCHANGED <<workerVars, ctxVars, chanVars, uiVars, parseVars>>

InitCalls ==
    /\ specs = <<>>
    /\ rootExists = FALSE
    /\ WorkerStart
    /\ max_ops = 0
    /\ CtxStart
    /\ ChanStart
    /\ UiStart
    /\ ParseStart
    /\ call_out = NoCall
    /\ LET packages == {<<"p">>, <<"q">>}
           versions == {<<"1">>, <<"1", ".", "2">>, <<"2">>}
           pipx_specs == packages \cup {pk \o <<"@">> \o v : pk \in packages, v \in versions \cup {<<>>}}
           venvs_found == {{}} \cup {{<<pk, v>>} : pk \in packages, v \in versions}
                          \cup {{<<<<"p">>, v>>, <<<<"q">>, <<"2">>>>} : v \in versions}
           names == {"", "a", "b", "run/a", "run/b", "x", "y"}
           dicts == {<<>>,
                     <<[key |-> "a", name |-> "run/a"]>>,
                     <<[key |-> "a", name |-> ""]>>,
                     <<[key |-> "a", name |-> "run/b"], [key |-> "b", name |-> "run/a"]>>,
                     <<[key |-> "a", name |-> "b"], [key |-> "b", name |-> "run/b"]>>}
           mappings == [{"a", "x"} -> {"absent", "callable", "value"}]
       IN \/ call_in \in {[fn |-> "pipx", spec |-> sp, venvs |-> vs, exitcode |-> ec] :
                             sp \in pipx_specs, vs \in venvs_found, ec \in 0 .. MaxExitCode}
          \/ call_in \in {[fn |-> "resolve_action", self |-> d, actions |-> acts,
                           maps |-> <<own, outer>>, action_name |-> n] :
                             d \in {[res |-> "conf", body |-> "a", q |-> ""]}, acts \in dicts, own \in mappings,
                             outer \in mappings, n \in names}

SpecCalls == InitCalls /\ [][PipxCall \/ ResolveActionCall]_vars

\* ------------------------------------------------------------ observation
Idx == 1 .. Len(events)
StartIdx(p) == {i \in Idx : events[i].typ = "op/start" /\ events[i].path = p}
FinishIdx(p) == {i \in Idx : events[i].typ = "op/finish" /\ events[i].path = p}
ErrorIdx(p) == {i \in Idx : events[i].typ = "op/error" /\ events[i].path = p}
StartedPaths == {events[i].path : i \in {j \in Idx : events[j].typ = "op/start"}}

\* The Operations opened by action `op_name` on behalf of Dep `fqn`.
RunsOf(op_name, fqn) ==
    {i \in Idx : /\ events[i].typ = "op/start"
                 /\ events[i].op = op_name
                 /\ events[i].src = fqn}

\* The Operation at path p is open: its frame is on the call stack.
OnStack(p) == \E k \in 1 .. Len(stack) : stack[k].kind # "code" /\ stack[k].path = p

WorkerDone == exitStatus # <<>>

ConfFqns == {f \in Fqns : f.res = CONF_RESOLVER_NAME}

\* The Dep on whose behalf the Operation at path p was opened.
CallerOf(p) == events[CHOOSE i \in StartIdx(p) : TRUE].src

\* ----------------------------------------------------------------- claims

\* C1: requests for file-defined targets with the same fqn share one Dep,
\* and the target's entry function is invoked once: never twice, and exactly
\* once when the Dep's build Operation has finished without an error.
C1_OneDepOneRun ==
    \A f \in ConfFqns :
        /\ depCreated[f] <= 1
        /\ fnCalls[f] <= 1
        /\ Cardinality(RunsOf("build/dep", f)) <= 1
        /\ (requested[f] > 0) => (depCreated[f] = 1 /\ f \in resolved)
        /\ \A i \in RunsOf("build/dep", f) :
              (FinishIdx(events[i].path) # {} /\ events[i].path \notin raisedIn)
                  => fnCalls[f] = 1

C1_Witness ==
    /\ WorkerDone
    /\ \E f \in ConfFqns :
          /\ requested[f] >= 2 /\ fnCalls[f] = 1 /\ depCreated[f] = 1
          /\ \E i \in Idx :
                /\ events[i].typ = "op/start" /\ events[i].op = "use/dep"
                /\ Fqn(events[i].arg) = f /\ events[i].src # f
                /\ events[i].path \notin raisedIn

\* C2: for every resolver, also the simple resolvers, one fqn has at most
\* one Dep and at most one run of its tracked action.
C2_EveryResolverOnce ==
    \A f \in Fqns :
        /\ depCreated[f] <= 1
        /\ Cardinality(RunsOf("run/" \o f.res, f)) <= 1

\* C3: the build logic of one fqn runs at most once, also when an earlier
\* run ended with an error: a later resolve does not run the target code
\* again.
C3_AtMostOneRun ==
    \A f \in ConfFqns : fnCalls[f] <= 1

\* C4: when the code wrapped by an Operation raised, an Error event for its
\* path precedes its Finish event, whether the error is raised again or muted.
C4_ErrorBeforeFinish ==
    \A p \in raisedIn :
        /\ ErrorIdx(p) # {}
        /\ FinishIdx(p) # {}
        /\ \A i \in ErrorIdx(p) : \A j \in FinishIdx(p) : i < j

C4_Witness ==
    /\ WorkerDone
    /\ \E p \in raisedIn : p \in reraised
    /\ \E p \in raisedIn : p \notin reraised /\ CallerOf(p) # NoDep

\* C5: every started Operation gets exactly one Finish: none while it is
\* open, one from the moment it is closed, however it ended.
C5_ExactlyOneFinish ==
    \A p \in StartedPaths :
        /\ Cardinality(StartIdx(p)) = 1
        /\ IF OnStack(p)
           THEN FinishIdx(p) = {}
           ELSE Cardinality(FinishIdx(p)) = 1

C5_Witness ==
    /\ WorkerDone
    /\ \E p \in StartedPaths : p \notin raisedIn
    /\ \E p \in raisedIn : p \in reraised
    /\ \E p \in raisedIn : p \notin reraised

\* C6: the events of one Operation come in the order Start, Progress/Log,
\* Error (if any), Finish.
C6_PerOperationOrder ==
    \A i \in Idx :
        LET e == events[i]
        IN e.typ \in {"op/log", "op/progress", "op/error", "op/finish"} =>
              /\ \E s \in StartIdx(e.path) : s < i
              /\ \A j \in FinishIdx(e.path) : i <= j
              /\ e.typ \in {"op/log", "op/progress"} =>
                    \A j \in ErrorIdx(e.path) : i < j

C6_Witness ==
    \E p \in StartedPaths :
        /\ ErrorIdx(p) # {}
        /\ FinishIdx(p) # {}
        /\ \E i \in Idx : events[i].typ = "op/progress" /\ events[i].path = p

\* C7: Start of path P precedes every event whose path properly extends P,
\* and the Operation of P is still open when the Operation of a longer path
\* starts.
C7_PathNesting ==
    \A i \in Idx :
        \A n \in 1 .. Len(events[i].path) - 1 :
            LET P == SubSeq(events[i].path, 1, n)
            IN /\ \E s \in StartIdx(P) : s < i
               /\ \A j \in FinishIdx(P) : i < j

C7_Witness ==
    /\ WorkerDone
    /\ \E i \in Idx : Len(events[i].path) >= 4
    /\ \E i \in Idx : events[i].typ = "internal/debug" /\ Len(events[i].path) >= 2

\* C8: no two Start events carry the same path, a path is its parent's path
\* plus one id, and the ids are issued in increasing order of Start.
C8_UniquePaths ==
    \A i, j \in Idx :
        (i < j /\ events[i].typ = "op/start" /\ events[j].typ = "op/start") =>
            /\ events[i].path # events[j].path
            /\ Last(events[i].path)[2] < Last(events[j].path)[2]
            /\ \A k \in 1 .. Len(events[j].path) - 1 :
                  events[j].path[k][2] < Last(events[j].path)[2]

C8_Witness ==
    /\ WorkerDone
    /\ \E p, q \in StartedPaths :
          /\ p # q /\ Len(p) = Len(q) /\ Len(p) >= 2
          /\ Front(p) = Front(q)
          /\ Last(p)[1] = Last(q)[1]

C10_UncaughtExitsNonZero ==
    (WorkerDone /\ \E p \in raisedIn : Len(p) = 1) => exitStatus # <<0>>

\* The resolvers of the registry that accept the raw spec.
Accepting(raw) == {i \in 1 .. Len(resolvers) : can_resolve(resolvers[i], raw)}

\* The resolvers the last Registry.resolve called `what` on, in call order.
CalledOn(what) ==
    LET sel == SelectSeq(dispatch.calls, LAMBDA c : c[1] = what)
    IN [k \in 1 .. Len(sel) |-> sel[k][2]]

ConfDone(d) ==
    {i \in RunsOf("use/conf", d) :
        /\ events[i].arg # NoSpec
        /\ events[i].path \notin raisedIn
        /\ FinishIdx(events[i].path) # {}}

\* The build of Dep b is in progress when event i is sent.
BuildOpenAt(b, i) ==
    \E s \in RunsOf("build/dep", b) :
        s < i /\ \A f \in FinishIdx(events[s].path) : f > i

\* The dep(...) calls of Dep a for another file-defined target that was not
\* being built at the call, and that returned without an error.
DepCallsDone(a) ==
    {i \in RunsOf("use/dep", a) :
        /\ Fqn(events[i].arg) \in ConfFqns \ {a}
        /\ ~BuildOpenAt(Fqn(events[i].arg), i)
        /\ events[i].path \notin raisedIn
        /\ FinishIdx(events[i].path) # {}}

\* C12: when target a calls dep(b) and then conf(n=1), and target b calls
\* conf(n=2), the Finish of b's build precedes the Start of a's conf, and
\* afterwards n read through a's scope is 1 and n read through b's scope
\* is 2.
C12_DepThenConf ==
    \A a \in ConfFqns :
        /\ ConfDone(a) # {} => CtxGet(DepCtx(a), layer, parent) = ConfValue(a)
        /\ \A i \in DepCallsDone(a) :
           \A j \in RunsOf("use/conf", a) :
              i < j =>
                 \E s \in RunsOf("build/dep", Fqn(events[i].arg)) :
                 \E f \in FinishIdx(events[s].path) : f < j

C12_Witness ==
    /\ WorkerDone
    /\ \E a, b \in ConfFqns :
          /\ ConfValue(a) = "1" /\ ConfValue(b) = "2"
          /\ parent[b] = DepCtx(a)
          /\ ConfDone(b) # {}
          /\ CtxGet(DepCtx(a), layer, parent) = "1"
          /\ CtxGet(DepCtx(b), layer, parent) = "2"
          /\ \E i \in DepCallsDone(a) :
                /\ Fqn(events[i].arg) = b
                /\ \E s \in RunsOf("build/dep", b) : s > i /\ s < CHOOSE f \in FinishIdx(events[i].path) : TRUE
                /\ \E j \in ConfDone(a) : i < j

\* C13: a read through a child of a key the child lacks returns the
\* parent's value; writes made through a Ctx (conf calls and memoizing
\* reads) leave every other mapping, the parent's included, unchanged; a
\* key written in the child shadows the parent's value for reads through
\* the child only.
C13_ChildScope ==
    [][\A c \in CtxIds : \A k \in Keys :
         (lastOp'.op \in {"conf", "read"} /\ lastOp'.c = c /\ lastOp'.k = k) =>
            /\ \A i \in 0 .. MaxCtx - 1 : i # c => ctx_maps'[i] = ctx_maps[i]
            /\ \A p \in CtxIds :
                  p = ctx_parent[c] =>
                     /\ (lastOp'.op = "read" /\ ctx_maps[c][k].kind = "none") =>
                            lastOp'.val = ReadValue(p, k)
                     /\ lastOp'.op = "conf" =>
                            /\ ReadValue(p, k)' = ReadValue(p, k)
                            /\ \A v \in ConfStrings(k) :
                                  lastOp'.val = v => ReadValue(c, k)' = RenderStr(v, c)']_vars

C13_Witness ==
    /\ lastOp.op = "read"
    /\ ctx_parent[lastOp.c] # -1
    /\ written[lastOp.c][lastOp.k].v = ""
    /\ ctx_maps[lastOp.c][lastOp.k] = [kind |-> "val", v |-> lastOp.val]
    /\ ctx_maps[ctx_parent[lastOp.c]][lastOp.k].kind = "lazy"
    /\ \E c \in CtxIds :
          /\ ctx_parent[c] = ctx_parent[lastOp.c]
          /\ written[c][lastOp.k].v \notin {"", written[ctx_parent[c]][lastOp.k].v}

\* C14: the cell stored under a key in one mapping is rendered at most once
\* by the reads of that key made through the Ctx or its children, and once
\* read it is replaced by the rendered value in the mapping that held it.
C14_RenderOnce ==
    \A c \in CtxIds : \A k \in Keys :
        /\ renders[c][k] <= 1
        /\ renders[c][k] = 1 => ctx_maps[c][k].kind = "val"

\* C15: conf stores a template without rendering it; x given "{{y}}" before
\* y is given its value reads as y's later value; a conf call adds no render.
C15_DeferredRender ==
    [][LET o == lastOp'
       IN /\ o.op = "conf" => nrender' = nrender
          /\ \A h \in CtxIds :
                (/\ o.op = "read" /\ o.k = "x" /\ h = Holder(o.c, "x")
                 /\ written[h]["x"].v = "{{y}}" /\ renders[h]["x"] = 0
                 /\ written[h]["y"].v # "")
                    => /\ o.val = written[h]["y"].v
                       /\ nrender' <= nrender + 2]_vars

C15_Witness ==
    /\ lastOp.op = "read" /\ lastOp.k = "x" /\ lastOp.val = "1"
    /\ written[lastOp.c]["x"].v = "{{y}}"
    /\ written[lastOp.c]["y"].v = "1"
    /\ written[lastOp.c]["x"].at < written[lastOp.c]["y"].at
    /\ renders[lastOp.c]["x"] = 1
    /\ nsteps >= 4

\* C16: a read of key k through the Ctx of a Dep yields the value of the
\* most recent conf call of that Dep that named k, also when that call
\* replaced a value memoized by an earlier read.
C16_LastConfWins ==
    [][LET o == lastOp'
       IN (o.op = "read" /\ written[o.c][o.k].v # "") =>
             IF written[o.c][o.k].v # "{{y}}"
             THEN o.val = written[o.c][o.k].v
             ELSE IF ctx_maps[o.c][o.k].kind = "lazy"
                  THEN o.val = PrintY(o.c)
                  ELSE o.val = ctx_maps[o.c][o.k].v]_vars

C16_Witness ==
    /\ lastOp.op = "read"
    /\ written[lastOp.c][lastOp.k].overMemo
    /\ written[lastOp.c][lastOp.k].v = lastOp.val
    /\ written[lastOp.c][lastOp.k].at = nsteps - 1
    /\ ctx_maps[lastOp.c][lastOp.k] = [kind |-> "val", v |-> lastOp.val]

\* ------------------------------------------------------- channel claims
\* min(50 ms * 1.5^k, 3 s) in ticks; 1.5^k is a whole number of ticks up
\* to k = 11, and 50 ms * 1.5^11 is already above 3 s.
Backoff(k) ==
    IF 2 ^ k > TicksPerMs THEN MAX_SLEEP
    ELSE Min(50 * (3 ^ k) * (TicksPerMs \div (2 ^ k)), MAX_SLEEP)

\* C17: the sleeping delay is always within [50 ms, 3 s]; the wait that
\* follows k consecutive timed-out waits (no message, no wake) is started
\* with min(50 ms * 1.5^k, 3 s), 50 ms for the first one; and once a
\* message has been received the delay is 50 ms again.
C17_BackoffBounds ==
    /\ DEFAULT_SLEEP <= sleeping_delay /\ sleeping_delay <= MAX_SLEEP
    /\ rpc = "waiting" => armed = sleeping_delay /\ armed = Backoff(idle)
    /\ rpc = "yielded" => sleeping_delay = DEFAULT_SLEEP /\ idle = 0

C17_Witness ==
    /\ rpc = "waiting" /\ armed = MAX_SLEEP /\ idle = MaxIdle
    /\ yielded # <<>>

\* C18: a wait during which reset_sleeping_delay was called does not last
\* its full delay (while it goes on, the Event that ends it is set), and
\* the wait after it is started with 50 ms.
C18_WakeEndsWait ==
    /\ (rpc = "waiting" /\ wokeInWait) => reset_flag
    /\ lastWait.woken => ~lastWait.full
    /\ (lastWait.woken /\ rpc = "waiting") => armed = DEFAULT_SLEEP

C18_Witness ==
    /\ lastWait.woken /\ lastWait.armed > DEFAULT_SLEEP
    /\ rpc = "waiting" /\ armed = DEFAULT_SLEEP

\* C19: no activity signal is lost: a wait that an activity signal (an
\* event sent by the worker, or a wake request made since the loop last
\* answered one) was addressed to never lasts its full delay.
C19_NoSignalLost ==
    lastWait.signalled => ~lastWait.full

\* C20: after the receive loop was cancelled, every event the worker has
\* sent is among the yielded ones or still in the pipe.
C20_CancelKeepsMessages ==
    rpc = "cancelled" =>
        \A m \in 1..sent :
            \/ \E i \in 1..Len(yielded) : yielded[i] = m
            \/ \E i \in 1..Len(pipe) : pipe[i] = m

\* ------------------------------------------------------ observer claims
StreamIdx == 1 .. Len(stream)
HandledIdx == 1 .. ui_pos
SentFinish(p) == \E i \in StreamIdx : stream[i].typ = "op/finish" /\ stream[i].path = p
IsChildOf(p, q) == \E i \in 1 .. Len(ops_map[q].ops) : ops_map[q].ops[i] = p

C22_ChildOfPathParent ==
    \A p \in DOMAIN ops_map :
        Len(p) > 1 =>
            \A q \in DOMAIN ops_map : IsChildOf(p, q) <=> q = Front(p)

\* C23: handling an event of a kind the observer has no case for leaves
\* ops_map (every Operation's state, data, logs and children) and root_op
\* as they were, and the loop running.
C23_UnknownKindSkipped ==
    [][(ui_pos' = ui_pos + 1 /\ stream[ui_pos + 1].typ \notin KnownKinds) =>
           /\ ops_map' = ops_map
           /\ root_op' = root_op
           /\ listen' = "running"]_vars

C23_Witness ==
    /\ ui_pos >= 2 /\ listen = "running"
    /\ stream[ui_pos - 1].typ = "future/kind"
    /\ stream[ui_pos].typ = "op/start"
    /\ stream[ui_pos].path \in DOMAIN ops_map

ProgressIdx(p, k) ==
    {i \in HandledIdx : stream[i].typ = "op/progress" /\ stream[i].path = p
                        /\ stream[i].data[k] # 0}

StartOf(p) == stream[CHOOSE i \in HandledIdx : stream[i].typ = "op/start" /\ stream[i].path = p]

MaxOf(S) == CHOOSE i \in S : \A j \in S : j <= i

Forward(a, b) ==
    \/ a = b
    \/ a = "init" /\ b = "in-progress"
    \/ a = "in-progress" /\ b \in {"succeeded", "failed"}

\* C25: in every step, every Operation of the tree stays in the tree and
\* its state is the same or moves init -> in-progress -> succeeded or
\* failed; a succeeded or failed Operation stays as it is.
C25_StateMonotonic ==
    [][\A p \in DOMAIN ops_map :
           /\ p \in DOMAIN ops_map'
           /\ Forward(OpState(ops_map[p]), OpState(ops_map'[p]))]_vars

C25_Witness ==
    /\ \E p \in DOMAIN ops_map : OpState(ops_map[p]) = "failed" /\ ops_map[p].error
    /\ \E p \in DOMAIN ops_map : OpState(ops_map[p]) = "succeeded"
    /\ \E p \in DOMAIN ops_map : OpState(ops_map[p]) = "in-progress"

\* C26: a finished Operation that got Stop and no Error is in another
\* state than a finished Operation that got Error; and the finished
\* ancestors of a stopped Operation that got neither are succeeded.
C26_StopDistinctFromError ==
    \A p \in DOMAIN ops_map :
        (ops_map[p].finished /\ ops_map[p].stop_reason /\ ~ops_map[p].error) =>
            /\ \A q \in DOMAIN ops_map :
                   (ops_map[q].finished /\ ops_map[q].error) =>
                       OpState(ops_map[p]) # OpState(ops_map[q])
            /\ \A l \in 1 .. Len(p) - 1 :
                   LET a == SubSeq(p, 1, l)
                   IN (a \in DOMAIN ops_map /\ ops_map[a].finished
                       /\ ~ops_map[a].error /\ ~ops_map[a].stop_reason) =>
                          OpState(ops_map[a]) = "succeeded"

\* ---------------------------------------------------- root bootstrap claim
\* C27: when a root build unit exists, no spec other than conf:::main has
\* been handed to the registry unless conf:::main was resolved and its
\* build Operation has finished.
C27_RootFirst ==
    (rootExists /\ \E f \in Fqns \ {root_conf_dep} : requested[f] > 0) =>
        /\ requested[root_conf_dep] > 0
        /\ \E i \in RunsOf("build/dep", root_conf_dep) : FinishIdx(events[i].path) # {}

\* ---- spec strings
ParseOps == {"parse_spec", "parse_spec_dep", "parse_conf_spec"}

DispatchOps == {"Registry.resolve", "Registry.dep"}

\* The raw spec has no `resolver::` prefix, or an empty one.
NoPrefix(raw) ==
    LET parts == Split1(Strip(raw), <<":", ":">>)
    IN Len(parts) = 1 \/ Strip(parts[1]) = <<>>

\* C28: for a raw spec r::b?k=v the parsed Spec has fqn r::b and params
\* exactly {k: v}, whatever the query part is.
C28_QueryNotInFqn ==
    \A r \in {S_conf, S_path, <<"z", "z">>}, b \in {<<"a">>, <<"x">>}, kv \in {<<"v">>, <<"w">>} :
        (/\ p_raw = r \o <<":", ":">> \o b \o <<"?", "k", "=">> \o kv
         /\ p_out.op \in ParseOps
         /\ p_out.raised = "")
            => /\ p_out.fqn = r \o <<":", ":">> \o b
               /\ p_out.params = {<<<<"k">>, kv>>}

\* C29: a raw spec without a resolver prefix, or with an empty one, gets
\* the default resolver name and is dispatched to the default resolver
\* only.
C29_DefaultResolver ==
    (/\ NoPrefix(p_raw)
     /\ p_out.op \in DispatchOps
     /\ p_out.to # "")
        => /\ p_out.resolver_name = S_conf
           /\ p_out.to = "conf"

\* C30: parsing raises for no input string, and no can_resolve raises
\* while the registry dispatches.
C30_ParseTotal ==
    /\ p_out.op \in ParseOps => p_out.raised = ""
    /\ p_out.op = "Registry.resolve" => p_out.raised \in {"", "RuntimeError"}

\* C33: at every moment the ambient active path is the path of the innermost
\* Operation that has sent Start and not yet Finish (the empty path when
\* there is none), so the exit of an Operation puts back the value the
\* active path had just before its Start: its own path minus the last id.
C33_ActivePathIsInnermostOpen ==
    LET open == {p \in StartedPaths : FinishIdx(p) = {}}
    IN /\ open = {} => active_op_path = <<>>
       /\ open # {} =>
            /\ active_op_path \in open
            /\ \A p \in open : /\ Len(p) <= Len(active_op_path)
                               /\ p = SubSeq(active_op_path, 1, Len(p))

\* An Operation three levels down raised and was left, another returned, and
\* the worker went on to open an Operation after both exits.
C33_Witness ==
    /\ \E p \in StartedPaths : Len(p) >= 3 /\ ErrorIdx(p) # {} /\ FinishIdx(p) # {}
    /\ \E p, q \in StartedPaths :
          /\ ErrorIdx(p) = {} /\ FinishIdx(p) # {}
          /\ FinishIdx(q) = {} /\ Len(q) >= 2
          /\ \A i \in FinishIdx(p), j \in StartIdx(q) : i < j
          /\ active_op_path = q

\* C37: when a tracked action called on behalf of a failsafe Dep ends with
\* an error, the call hands None back to its caller with no exception in
\* flight and the calling code is still running, so the target code of a
\* failsafe Dep never sees an action's error and goes on to its next calls.
C37_FailsafeCallReturnsNone ==
    [][ /\ (stack # <<>> /\ exc /\ Top.kind = "act"
               /\ Top.caller # NoDep /\ Failsafe(Top.caller))
           => /\ ~exc' /\ ret' = "None"
              /\ stack' = Front(stack)
              /\ \E i, j \in 1 .. Len(events') :
                    /\ i < j
                    /\ events'[i].typ = "op/error" /\ events'[i].path = Top.path
                    /\ events'[j].typ = "op/finish" /\ events'[j].path = Top.path
        /\ (stack' # <<>> /\ stack'[Len(stack')].kind = "code"
               /\ Failsafe(stack'[Len(stack')].caller))
           => ~exc' ]_vars

\* The entry function of the failsafe Dep called an action that raised, got
\* None, and then called a second action, which ran to its end.
C37_Witness ==
    \E p \in raisedIn, q \in StartedPaths :
        /\ CallerOf(p) # NoDep /\ Failsafe(CallerOf(p)) /\ Last(p)[1] \in CodeOps
        /\ CallerOf(q) = CallerOf(p) /\ Last(q)[1] \in CodeOps
        /\ Front(q) = Front(p) /\ Last(Front(p))[1] = "build/dep"
        /\ \A i \in FinishIdx(p), j \in StartIdx(q) : i < j
        /\ FinishIdx(q) # {} /\ ErrorIdx(q) = {}

\* C38: an Operation sends Error only while an error is in flight in it, as
\* the innermost open Operation; if its action raises the error again the
\* error stays in flight and the enclosing Operation sends its own Error
\* before its Finish, and so on upwards; where the error is muted no
\* error is in flight afterwards, so nothing above sends an Error for it.
C38_ErrorChainStopsAtMute ==
    /\ [](\A p \in reraised :
            Len(p) >= 2 =>
                IF FinishIdx(Front(p)) = {}
                THEN exc /\ active_op_path = Front(p)
                ELSE \E e \in ErrorIdx(Front(p)) :
                        /\ \A f \in FinishIdx(Front(p)) : e < f
                        /\ \A f \in FinishIdx(p) : f < e)
    /\ [](\A p \in raisedIn :
            p \in reraised <=>
                (Len(p) >= 2 /\ CallerOf(p) # NoDep /\ ~Failsafe(CallerOf(p))))
    /\ [][ /\ \A p \in raisedIn' \ raisedIn :
                /\ exc /\ active_op_path = p
                /\ \E e \in 1 .. Len(events') :
                      /\ Len(events) < e
                      /\ events'[e].typ = "op/error" /\ events'[e].path = p
                /\ exc' <=> p \in reraised'
           /\ (\E e \in 1 .. Len(events') : Len(events) < e /\ events'[e].typ = "op/error")
                => raisedIn' # raisedIn ]_vars

\* An error went up through three Operations, each with its Error before
\* its Finish, and was muted at the third; the Operation above the muting
\* point ended without an Error event.
C38_Witness ==
    \E p \in reraised :
        /\ Len(p) >= 4
        /\ Front(p) \in reraised
        /\ Front(Front(p)) \in raisedIn \ reraised
        /\ FinishIdx(Front(Front(Front(p)))) # {}
        /\ ErrorIdx(Front(Front(Front(p)))) = {}

\* C39: when the wrapped function of a tracked action called without a
\* caller Dep raises, the call sends Error and then Finish for its
\* Operation, raises nothing and returns None.
C39_CallerlessNeverReraises ==
    [][ (stack # <<>> /\ exc /\ Top.kind = "act" /\ Top.caller = NoDep)
           => /\ ~exc' /\ ret' = "None"
              /\ stack' = Front(stack)
              /\ Top.path \notin reraised'
              /\ Len(events') = Len(events) + 2
              /\ events'[Len(events) + 1].typ = "op/error"
              /\ events'[Len(events) + 1].path = Top.path
              /\ events'[Len(events) + 2].typ = "op/finish"
              /\ events'[Len(events) + 2].path = Top.path ]_vars

\* The conf call of setup, made from the global context, raised; the worker
\* went on to resolve a requested spec.
C39_Witness ==
    \E p \in raisedIn \ reraised, q \in StartedPaths :
        /\ Len(p) = 2 /\ Last(p)[1] = "use/conf" /\ CallerOf(p) = NoDep
        /\ Last(q)[1] = "build/dep"
        /\ \A i \in FinishIdx(p), j \in StartIdx(q) : i < j

\* C36: a build that requests its own fqn, directly or through other Deps,
\* gets the Dep that is being built: the entry function of a Dep is never
\* entered while a run of it is still on the call stack.
C36_SelfRequestNoSecondBuild ==
    \A f \in ConfFqns :
        Cardinality({k \in 1 .. Len(stack) :
                        stack[k].kind = "code" /\ stack[k].caller = f}) <= 1

\* The Dep whose dep call made the first resolve of fqn f, NoDep when the
\* first resolve came from build_specs: the build of f was opened inside
\* that call's Operation.
FirstCaller(f) ==
    LET s == CHOOSE i \in RunsOf("build/dep", f) :
                 \A j \in RunsOf("build/dep", f) : i <= j
        q == Front(events[s].path)
    IN IF Last(q)[1] = "use/dep" THEN CallerOf(q) ELSE NoDep

\* The Deps whose dep call asked for f after its first resolve and got it.
LaterCallers(f) ==
    {events[i].src : i \in
        {j \in Idx : /\ events[j].typ = "op/start" /\ events[j].op = "use/dep"
                     /\ Fqn(events[j].arg) = f
                     /\ \E s \in RunsOf("build/dep", f) : s < j
                     /\ FinishIdx(events[j].path) # {}
                     /\ events[j].path \notin raisedIn}}

\* The scope a caller hands to Registry.resolve.
ScopeOf(caller) == IF caller = NoDep THEN GlobalCtx ELSE DepCtx(caller)

\* A key held by scope X alone is found by a lookup through f's scope.
Readable(X, f) ==
    CtxGet(DepCtx(f), [c \in DOMAIN layer |-> IF c = X THEN "k" ELSE ""], parent) = "k"

\* The scopes on f's chain as the history of first resolves gives it: f's
\* own scope, then the chain of its first caller, down to the global scope.
RECURSIVE HistChain(_)
HistChain(f) ==
    IF f = NoDep \/ f = root_conf_dep THEN {GlobalCtx}
    ELSE {DepCtx(f)} \cup HistChain(FirstCaller(f))

C34_YieldsInSendOrder ==
    /\ \A i \in 1 .. Len(yielded) : yielded[i] = i
    /\ Len(yielded) <= sent
    /\ rpc # "cancelled" =>
          yielded \o (IF held # 0 THEN <<held>> ELSE <<>>) \o pipe
              = [i \in 1 .. sent |-> i]

\* Both events were yielded, and the loop has also waited with an empty
\* pipe and has been asked to wake.
C34_Witness ==
    /\ sent = MaxMsgs /\ Len(yielded) = MaxMsgs /\ rpc = "yielded"
    /\ lastWait.armed > 0 /\ wakes > 0

\* C35: once the worker has run the build to its end, the listen loop
\* eventually returns, and when it returns it has handled every event up
\* to and including the Finish of the worker's root Operation.
C35_ListenEventuallyReturns ==
    /\ (w_state = "done") ~> (listen = "returned")
    /\ [](listen = "returned" =>
            /\ ui_pos > 0
            /\ stream[ui_pos].typ = "op/finish" /\ Len(stream[ui_pos].path) = 1)

\* C32 as stated: the pipx resolver returns `failed` whenever an install
\* command it ran exited non-zero, `installed` exactly when an install
\* command ran and exited zero, and `unchanged` exactly when the package
\* was present in a matching version (the installed version starts with
\* the requested one) so that no install command was run.
C32_PipxStatusClassifiesOutcome ==
    call_out.fn = "pipx" =>
        LET ran == call_out.cmd # ""
            parts == Split1(call_in.spec, <<"@">>)
            wanted == IF Len(parts) = 2 THEN parts[2] ELSE <<>>
            present_matching == \E v \in call_in.venvs :
                                    v[1] = parts[1] /\ StartsWith(v[2], wanted)
        IN /\ (ran /\ call_in.exitcode # 0) => call_out.status = "failed"
           /\ call_out.status = "installed" <=> (ran /\ call_in.exitcode = 0)
           /\ call_out.status = "unchanged" <=> (present_matching /\ ~ran)

\* C31 as stated: resolving an action returns a callable bound to the Dep
\* (its calls pass that Dep as caller) when the name equals the key or the
\* declared action name of one of the Dep's actions, or else names a
\* callable found in the Dep's scope chain; in every other case it raises
\* the action-not-found error (the RuntimeError "Cannot resolve ... action").
C31_ResolveActionBoundOrNotFound ==
    call_out.fn = "resolve_action" =>
        LET n == call_in.action_name
            acts == call_in.actions
            is_action == \E i \in 1 .. Len(acts) :
                            n = acts[i].key \/ (acts[i].name # "" /\ n = acts[i].name)
            holds == {m \in 1 .. Len(call_in.maps) :
                         n \in DOMAIN call_in.maps[m] /\ call_in.maps[m][n] # "absent"}
            in_scope == holds # {} /\
                        call_in.maps[CHOOSE m \in holds : \A k \in holds : m <= k][n] = "callable"
        IN IF is_action \/ in_scope
           THEN call_out.raised = "" /\ call_out.caller = call_in.self
           ELSE call_out.raised = "RuntimeError"

====
